---- MODULE Spec2Model ----
(***************************************************************************)
(* Case view-model of the appealTrax front-end: the list derivations of     *)
(* the Proceedings page (latest proceeding per writ, upcoming hearings,     *)
(* urgency) and the proceeding forms of the Proceedings page, the writ      *)
(* detail page and the two-step writ-creation form.                         *)
(*                                                                          *)
(* Time is counted in ticks; a calendar day is TicksPerDay ticks.  A date   *)
(* string "YYYY-MM-DD" is modelled by its day number d, and                 *)
(* new Date(d).getTime() by d * TicksPerDay (midnight of that day).         *)
(***************************************************************************)
EXTENDS Integers, Sequences, FiniteSets, TLC

(***************************************************************************)
(* Bounds of the model.                                                     *)
(***************************************************************************)
TicksPerDay == 2
MaxTie == 3
MaxPair == 2
MaxWrits == 11
MaxSearches == 1
MaxInFlight == 1
\* the requests the writ form may have in flight where its handlers overlap
MaxOverlap == 2
\* the notice-of-motion entries of a form whose attachments are followed
MaxPaired == 3
MaxCreated == 1
MaxEntries == 2
MaxCreatedWrits == 1
MaxRequests == 2
MaxQueued == 2
MaxListed == 2
MaxBranches == 3
MaxCount == 2
TickMs == 100

(***************************************************************************)
(* Program constants.                                                       *)
(***************************************************************************)
UpcomingCap == 10
UrgentDays == 7

(***************************************************************************)
(* Markers for absent values.                                               *)
(***************************************************************************)
NoDate == -1
NoSeq == -1
NoFir == 0
NegInfinity == -1000

Today == 1

VARIABLES
  page,               \* the page component that is mounted
  currentUser,        \* useAuthStore: currentUser
  serverFirs,         \* the writs the server holds (by id)
  proceedings,        \* Proceedings: proceedings; FIRDetail: localProceedings
  loading,            \* useState(true) of the mounted page
  now,                \* the clock read by new Date()
  latestByFIR,        \* the Map built by the upcomingHearings memo
  upcomingHearings,   \* value of the upcomingHearings memo
  firs,               \* Proceedings, FIRs: firs (the writs, by id)
  firsWithDrafts,     \* Proceedings, FIRs: firsWithDrafts
  firSearchQuery,     \* Proceedings: firSearchQuery
  firSearchResults,   \* Proceedings: firSearchResults
  searchDelay,        \* Proceedings: the debounce timer of the search effect is armed
  sinceArmed,         \* Proceedings: ticks since the search effect last ran
  searches,           \* Proceedings: searchFIRs calls awaiting their response
  error,              \* Proceedings, FIRDetail: error; FIRs: formError
  showForm,           \* Proceedings: showCreateForm; FIRDetail: showForm; FIRs: formOpen
  formData,           \* Proceedings, FIRDetail: formData; FIRs: proceedingFormData
  orderOfProceedingFile,  \* useState<File | null>(null) of the mounted page
  noticeOfMotionFiles,    \* Proceedings: noticeOfMotionFiles (Map index -> File)
  firId,              \* FIRDetail: the route parameter
  fir,                \* FIRDetail: fir
  firFormData,        \* FIRs: formData (the writ form of step 1)
  currentStep,        \* FIRs: currentStep
  createdFIRId,       \* FIRs: createdFIRId
  formSubmitting,     \* FIRs: formSubmitting
  pending,            \* calls to the server awaiting their response
  sent,               \* the createProceeding call issued by the latest step, if any
  candidate,          \* a file offered to the attachment validators
  verdicts,           \* what each validation site answered for candidate
  location,           \* window.location.pathname
  requests,           \* request(): fetch calls awaiting their response
  outcome,            \* how the request() that ended in the latest step ended, if any
  probes,             \* load(): what the draft probes of the writs answered, if they have
  searchTerm,         \* Proceedings: searchTerm (the free-text filter)
  filterType,         \* Proceedings: filterType
  filterFIR,          \* Proceedings: filterFIR
  sortedInPlace,      \* Proceedings: the proceedings array was sorted by the list memo
  cityGraph           \* Dashboard: cityGraph

viewVars == <<proceedings, loading, now, latestByFIR, upcomingHearings>>

searchVars == <<firSearchQuery, firSearchResults, searchDelay, sinceArmed, searches>>

writVars == <<firs, firsWithDrafts>>

fileVars == <<orderOfProceedingFile, noticeOfMotionFiles>>

detailVars == <<firId, fir>>

stepVars == <<firFormData, currentStep, createdFIRId, formSubmitting>>

attachVars == <<candidate, verdicts>>

apiVars == <<location, requests, outcome>>

filterVars == <<searchTerm, filterType, filterFIR>>

vars == <<page, currentUser, serverFirs, viewVars, writVars, searchVars, error, showForm,
          formData, fileVars, detailVars, stepVars, pending, sent, attachVars, apiVars, probes, filterVars, sortedInPlace, cityGraph>>

(***************************************************************************)
(* Proceedings as the server returns them.  p.fir is a bare writ id, a      *)
(* populated writ object, or absent.                                        *)
(***************************************************************************)
StrFir(w) == [kind |-> "string", _id |-> w]
ObjFir(w) == [kind |-> "object", _id |-> w]
NullFir == [kind |-> "null", _id |-> NoFir]

FirIdOf(p) ==
  IF p.fir.kind = "string" THEN p.fir._id
  ELSE IF p.fir.kind = "object" THEN p.fir._id
  ELSE NoFir

SeqOrNegInf(p) == IF p.sequence = NoSeq THEN NegInfinity ELSE p.sequence

DateTime(d) == d * TicksPerDay

CreatedTime(p) == IF p.createdAt = NoDate THEN 0 ELSE p.createdAt

(***************************************************************************)
(* A JavaScript Map as a sequence of entries in insertion order.            *)
(***************************************************************************)
MapHas(m, k) == \E i \in 1..Len(m) : m[i].key = k
MapGet(m, k) == m[CHOOSE i \in 1..Len(m) : m[i].key = k].value
MapSet(m, k, v) ==
  IF MapHas(m, k)
    THEN [i \in 1..Len(m) |-> IF m[i].key = k THEN [key |-> k, value |-> v] ELSE m[i]]
    ELSE Append(m, [key |-> k, value |-> v])
MapValues(m) == [i \in 1..Len(m) |-> m[i].value]

(***************************************************************************)
(* Body of proceedings.forEach in the upcomingHearings memo.                *)
(***************************************************************************)
LatestStepLastWins(m, p) ==
  LET writId == FirIdOf(p) IN
  IF writId = NoFir THEN m
  ELSE LET currentSeq == IF MapHas(m, writId) THEN SeqOrNegInf(MapGet(m, writId)) ELSE NegInfinity
           seq == SeqOrNegInf(p)
       IN IF ~MapHas(m, writId) \/ seq >= currentSeq THEN MapSet(m, writId, p) ELSE m

LatestStep(m, p) ==
  LET writId == FirIdOf(p) IN
  IF writId = NoFir THEN m
  ELSE LET currentSeq == IF MapHas(m, writId) THEN SeqOrNegInf(MapGet(m, writId)) ELSE NegInfinity
           seq == SeqOrNegInf(p)
       IN IF ~MapHas(m, writId) \/ seq > currentSeq THEN MapSet(m, writId, p)
          ELSE IF seq = currentSeq
                 THEN IF CreatedTime(p) > CreatedTime(MapGet(m, writId))
                        THEN MapSet(m, writId, p)
                        ELSE m
                 ELSE m

RECURSIVE LatestFold(_, _, _)
LatestFold(m, procs, i) ==
  IF i > Len(procs) THEN m ELSE LatestFold(LatestStep(m, procs[i]), procs, i + 1)

LatestByFIR(procs) == LatestFold(<<>>, procs, 1)

(***************************************************************************)
(* filter / sort / slice of the memo.                                       *)
(***************************************************************************)
IsUpcomingByDay(p, t) ==
  /\ p.dateOfHearing # NoDate
  /\ p.dateOfHearing >= t \div TicksPerDay

IsUpcoming(p, t) ==
  /\ p.dateOfHearing # NoDate
  /\ DateTime(p.dateOfHearing) >= t

HearingTime(p) == IF p.dateOfHearing = NoDate THEN 0 ELSE DateTime(p.dateOfHearing)

\* Array.prototype.sort is stable: p goes after every element the comparator
\* does not order after it.
InsertAt(sorted, k, p) ==
  SubSeq(sorted, 1, k) \o <<p>> \o SubSeq(sorted, k + 1, Len(sorted))

InsertByHearingDescending(sorted, p) ==
  InsertAt(sorted,
           Cardinality({i \in 1..Len(sorted) : HearingTime(p) - HearingTime(sorted[i]) <= 0}),
           p)

InsertByHearing(sorted, p) ==
  InsertAt(sorted,
           Cardinality({i \in 1..Len(sorted) : HearingTime(sorted[i]) - HearingTime(p) <= 0}),
           p)

RECURSIVE SortFold(_, _, _)
SortFold(acc, list, i) ==
  IF i > Len(list) THEN acc ELSE SortFold(InsertByHearing(acc, list[i]), list, i + 1)

SortByHearing(list) == SortFold(<<>>, list, 1)

SliceCap(list) == SubSeq(list, 1, IF Len(list) < UpcomingCap THEN Len(list) ELSE UpcomingCap)

KeptByFilter(procs, t) ==
  SelectSeq(MapValues(LatestByFIR(procs)), LAMBDA p : IsUpcoming(p, t))

UpcomingHearings(procs, t) == SliceCap(SortByHearing(KeptByFilter(procs, t)))

(***************************************************************************)
(* The filteredProceedings memo.  A text is a sequence of characters; a     *)
(* populated writ carries the number and the petitioner name of its id.     *)
(***************************************************************************)
EmptyText == <<>>
AllTypes == "ALL"

\* the value 'ALL' of the writ filter
AnyFir == NoFir

FirNumber(w) == <<<<"1">>, <<"2">>, <<"3">>, <<"4">>>>[w]
PetitionerName(w) == <<<<"A", "b">>, <<"a", "b", "c">>, <<"d">>, <<"e">>>>[w]

toLowerCase(text) ==
  [i \in 1..Len(text) |->
     IF text[i] = "A" THEN "a" ELSE IF text[i] = "B" THEN "b" ELSE text[i]]

includes(text, part) ==
  \E i \in 0..(Len(text) - Len(part)) : SubSeq(text, i + 1, i + Len(part)) = part

\* the callback of the free-text filter; term is in lower case
MatchesTerm(p, term) ==
  \/ includes(toLowerCase(p.summary), term)
  \/ includes(toLowerCase(p.judgeName), term)
  \/ includes(toLowerCase(p.courtNumber), term)
  \/ p.fir.kind = "object" /\ includes(toLowerCase(FirNumber(p.fir._id)), term)
  \/ p.fir.kind = "object" /\ includes(toLowerCase(PetitionerName(p.fir._id)), term)

DisplayTime(p) == IF p.dateOfHearing # NoDate THEN DateTime(p.dateOfHearing) ELSE CreatedTime(p)

InsertForDisplay(sorted, p) ==
  InsertAt(sorted,
           Cardinality({i \in 1..Len(sorted) : DisplayTime(p) - DisplayTime(sorted[i]) <= 0}),
           p)

RECURSIVE DisplayFold(_, _, _)
DisplayFold(acc, list, i) ==
  IF i > Len(list) THEN acc ELSE DisplayFold(InsertForDisplay(acc, list[i]), list, i + 1)

SortForDisplay(list) == DisplayFold(<<>>, list, 1)

\* the three filters of the memo and its sort
FilteredProceedings(list, term, type, writ) ==
  LET byTerm == IF term # EmptyText
                  THEN SelectSeq(list, LAMBDA p : MatchesTerm(p, toLowerCase(term)))
                  ELSE list
      byType == IF type # AllTypes THEN SelectSeq(byTerm, LAMBDA p : p.type = type) ELSE byTerm
      byWrit == IF writ # AnyFir THEN SelectSeq(byType, LAMBDA p : FirIdOf(p) = writ) ELSE byType
  IN  SortForDisplay(byWrit)

\* no filter is set: the memo sorts the proceedings array itself
NoFilter(term, type, writ) == term = EmptyText /\ type = AllTypes /\ writ = AnyFir

(***************************************************************************)
(* getDaysUntil and the urgent flag of an upcoming-hearing card.            *)
(***************************************************************************)
Ceil(a, b) == -((-a) \div b)

GetDaysUntilFloor(d, t) == (DateTime(d) - t) \div TicksPerDay

GetDaysUntil(d, t) == Ceil(DateTime(d) - t, TicksPerDay)

IsUrgent(p, t) ==
  /\ p.dateOfHearing # NoDate
  /\ GetDaysUntil(p.dateOfHearing, t) <= UrgentDays

(***************************************************************************)
(* Lists the server may return from fetchAllProceedings.                    *)
(***************************************************************************)
WithIds(f) ==
  [i \in DOMAIN f |->
     [_id |-> i, fir |-> f[i].fir, sequence |-> f[i].sequence,
      createdAt |-> f[i].createdAt, dateOfHearing |-> f[i].dateOfHearing]]

ListsOver(pool, maxLen) ==
  UNION {{WithIds(f) : f \in [1..n -> pool]} : n \in 0..maxLen}

ProceedingFields(firValues, seqs, createds, hearings) ==
  [fir : firValues, sequence : seqs, createdAt : createds, dateOfHearing : hearings]

\* proceedings of one writ that tie or differ on sequence and createdAt, and
\* proceedings of a second writ listed among them
TiePool ==
  ProceedingFields({ObjFir(1)}, {NoSeq, 1, 2}, {NoDate, 5}, {Today + UrgentDays})
    \cup ProceedingFields({StrFir(2)}, {NoSeq, 2}, {5}, {Today + UrgentDays})

\* hearings without a date, yesterday, today, seven and eight days out
DayPool ==
  ProceedingFields({StrFir(1), ObjFir(2)}, {1}, {5},
                   {NoDate, Today - 1, Today, Today + UrgentDays, Today + UrgentDays + 1})
    \cup ProceedingFields({NullFir}, {1}, {5}, {Today + UrgentDays})

\* one proceeding for each of n writs, the first k of them with the later date
WritLists ==
  {[i \in 1..n |->
      [_id |-> i, fir |-> StrFir(i), sequence |-> 1, createdAt |-> 5,
       dateOfHearing |-> IF i <= k THEN Today + UrgentDays ELSE Today + 1]]
     : n \in 0..MaxWrits, k \in 0..MaxWrits}

ServerLists == ListsOver(TiePool, MaxTie) \cup ListsOver(DayPool, MaxPair) \cup WritLists

\* midnight of the current day and a later time of the same day
NowValues == {DateTime(Today), DateTime(Today) + 1}

(***************************************************************************)
(* Writs.  A writ object is represented by its _id; its writType is read    *)
(* off the id: odd ids are QUASHING writs, even ids stand for the other     *)
(* writ types (BAIL).                                                       *)
(***************************************************************************)
QuashingWrit == 1
BailWrit == 2
ServerWrits == {QuashingWrit, BailWrit}

WritTypeOf(w) == IF w % 2 = 1 THEN "QUASHING" ELSE "BAIL"

\* null / undefined, and a value that is present
Null == <<>>
Some(v) == <<v>>

NoError == "null"

(***************************************************************************)
(* The proceeding form.  A section of the form is Blank while it holds its  *)
(* initial values and Typed once the user has entered something.            *)
(***************************************************************************)
PROCEEDING_TYPE_OPTIONS == <<"NOTICE_OF_MOTION", "TO_FILE_REPLY", "ARGUMENT", "DECISION">>

ProceedingTypes == {PROCEEDING_TYPE_OPTIONS[i] : i \in 1..Len(PROCEEDING_TYPE_OPTIONS)}

Blank == "blank"
Typed == "typed"

Sections == {"noticeOfMotion", "replyTracking", "argumentDetails", "decisionDetails"}

InitialFormData(w) ==
  [fir |-> w,
   type |-> "NOTICE_OF_MOTION",
   dateOfHearing |-> NoDate,
   noticeOfMotion |-> <<Blank>>,
   replyTracking |-> Blank,
   argumentDetails |-> Blank,
   decisionDetails |-> Blank]

\* formData.noticeOfMotion.length === 1 ? formData.noticeOfMotion[0] : formData.noticeOfMotion
NoticeOfMotionPayload(fd) ==
  [array |-> Len(fd.noticeOfMotion) # 1, entries |-> fd.noticeOfMotion]

BasePayload(w, fd, date) ==
  [fir |-> w,
   type |-> fd.type,
   dateOfHearing |-> date,
   noticeOfMotion |-> Null,
   replyTracking |-> Null,
   argumentDetails |-> Null,
   decisionDetails |-> Null,
   draft |-> Null]

\* the if / else-if chain of Proceedings.handleSubmit, with noticeOfMotion
\* left out of a TO_FILE_REPLY payload
BuildPayloadOneSection(fd) ==
  LET base == BasePayload(fd.fir, fd, fd.dateOfHearing)
  IN  IF fd.type = "NOTICE_OF_MOTION"
        THEN [base EXCEPT !.noticeOfMotion = Some(NoticeOfMotionPayload(fd))]
      ELSE IF fd.type = "TO_FILE_REPLY"
        THEN [base EXCEPT !.replyTracking = Some(fd.replyTracking)]
      ELSE IF fd.type = "ARGUMENT"
        THEN [base EXCEPT !.argumentDetails = Some(fd.argumentDetails)]
      ELSE IF fd.type = "DECISION"
        THEN [base EXCEPT !.decisionDetails = Some(fd.decisionDetails)]
      ELSE base

\* Proceedings.handleSubmit: the payload
BuildPayload(fd) ==
  LET base == BasePayload(fd.fir, fd, fd.dateOfHearing)
  IN  IF fd.type = "NOTICE_OF_MOTION"
        THEN [base EXCEPT !.noticeOfMotion = Some(NoticeOfMotionPayload(fd))]
      ELSE IF fd.type = "TO_FILE_REPLY"
        THEN [base EXCEPT !.noticeOfMotion = Some(NoticeOfMotionPayload(fd)),
                          !.replyTracking = Some(fd.replyTracking)]
      ELSE IF fd.type = "ARGUMENT"
        THEN [base EXCEPT !.argumentDetails = Some(fd.argumentDetails)]
      ELSE IF fd.type = "DECISION"
        THEN [base EXCEPT !.decisionDetails = Some(fd.decisionDetails)]
      ELSE base

\* FIRDetail.handleProceedingSubmit: the payload, for the writ of the route
BuildDetailPayload(w, fd) ==
  LET base == BasePayload(w, fd, fd.dateOfHearing)
  IN  IF fd.type = "NOTICE_OF_MOTION"
        THEN [base EXCEPT !.noticeOfMotion = Some(NoticeOfMotionPayload(fd))]
      ELSE IF fd.type = "TO_FILE_REPLY"
        THEN [base EXCEPT !.noticeOfMotion = Some(NoticeOfMotionPayload(fd)),
                          !.replyTracking = Some(fd.replyTracking)]
      ELSE IF fd.type = "ARGUMENT"
        THEN [base EXCEPT !.argumentDetails = Some(fd.argumentDetails)]
      ELSE IF fd.type = "DECISION"
        THEN [base EXCEPT !.decisionDetails = Some(fd.decisionDetails)]
      ELSE base

\* FIRs.handleSaveDraft and FIRs.handleProceedingSubmit: the payload
BuildStepPayload(w, fd, date, draft) ==
  [fir |-> w,
   type |-> fd.type,
   dateOfHearing |-> date,
   noticeOfMotion |->
     IF fd.type = "NOTICE_OF_MOTION" \/ fd.type = "TO_FILE_REPLY"
       THEN Some(NoticeOfMotionPayload(fd)) ELSE Null,
   replyTracking |-> IF fd.type = "TO_FILE_REPLY" THEN Some(fd.replyTracking) ELSE Null,
   argumentDetails |-> IF fd.type = "ARGUMENT" THEN Some(fd.argumentDetails) ELSE Null,
   decisionDetails |-> IF fd.type = "DECISION" THEN Some(fd.decisionDetails) ELSE Null,
   draft |-> Some(draft)]

\* the draft's hearing date without the fallback to today
DraftDateAsIs(fd, t) == fd.dateOfHearing

\* hearingDetails.dateOfHearing || new Date().toISOString().split('T')[0]
DraftDate(fd, t) == IF fd.dateOfHearing = NoDate THEN t \div TicksPerDay ELSE fd.dateOfHearing

(***************************************************************************)
(* Attachments.  A File is its size in bytes and its MIME type.             *)
(***************************************************************************)
MaxFileSize == 250 * 1024

AllowedTypes ==
  {"application/pdf", "image/png", "image/jpeg", "image/jpg",
   "application/vnd.openxmlformats-officedocument.spreadsheetml.sheet",
   "application/vnd.ms-excel"}

SizeError == "File size exceeds 250 KB limit"
SizeErrorNotice == "File size must be less than 250 KB"
TypeError == "Invalid file type. Only PDF, PNG, JPEG, JPG, and Excel files are allowed."

\* Proceedings.handleSubmit
SubmitFileError(file) ==
  IF file.size > MaxFileSize THEN SizeError
  ELSE IF file.type \notin AllowedTypes THEN TypeError
  ELSE NoError

\* Proceedings: the notice-of-motion file input
NoticeFileError(file) ==
  IF file.type \notin AllowedTypes THEN TypeError
  ELSE IF file.size > MaxFileSize THEN SizeErrorNotice
  ELSE NoError

\* Proceedings: the file input of the reply section
ReplyFileError(file) ==
  IF file.size > MaxFileSize THEN SizeError
  ELSE IF file.type \notin AllowedTypes THEN TypeError
  ELSE NoError

\* the order-of-proceeding file input without its size check
OrderFileErrorTypeOnly(file) ==
  IF file.type \notin AllowedTypes THEN TypeError
  ELSE NoError

\* Proceedings: the order-of-proceeding file input
OrderFileError(file) ==
  IF file.size > MaxFileSize THEN SizeError
  ELSE IF file.type \notin AllowedTypes THEN TypeError
  ELSE NoError

\* FIRDetail.handleProceedingSubmit
DetailSubmitFileError(file) ==
  IF file.size > MaxFileSize THEN SizeError
  ELSE IF file.type \notin AllowedTypes THEN TypeError
  ELSE NoError

\* FIRDetail: the order-of-proceeding file input
DetailOrderFileError(file) ==
  IF file.size > MaxFileSize THEN SizeError
  ELSE IF file.type \notin AllowedTypes THEN TypeError
  ELSE NoError

\* FIRs.handleSaveDraft
SaveDraftFileError(file) ==
  IF file.size > MaxFileSize THEN SizeError
  ELSE IF file.type \notin AllowedTypes THEN TypeError
  ELSE NoError

\* a submit handler that accepts files of up to 251 KiB
StepSubmitFileErrorLax(file) ==
  IF file.size > 251 * 1024 THEN SizeError
  ELSE IF file.type \notin AllowedTypes THEN TypeError
  ELSE NoError

\* FIRs.handleProceedingSubmit
StepSubmitFileError(file) ==
  IF file.size > MaxFileSize THEN SizeError
  ELSE IF file.type \notin AllowedTypes THEN TypeError
  ELSE NoError

\* FIRs: the order-of-proceeding file input of step 2
StepOrderFileError(file) ==
  IF file.size > MaxFileSize THEN SizeError
  ELSE IF file.type \notin AllowedTypes THEN TypeError
  ELSE NoError

(***************************************************************************)
(* Inputs of the forms.                                                     *)
(***************************************************************************)
LoggedIn == [token |-> "token"]

EmptyQuery == ""
TypedQuery == "q"
BlankQuery == "  "

\* firSearchQuery.trim()
Trim(q) == IF q = BlankQuery THEN EmptyQuery ELSE q
Label(w) == <<"writ 1", "writ 2", "writ 3", "writ 4">>[w]

HearingDateInputs == {NoDate, Today + UrgentDays}

PdfFile == [size |-> MaxFileSize, type |-> "application/pdf"]
BigPdfFile == [size |-> MaxFileSize + 1, type |-> "application/pdf"]
DocxFile ==
  [size |-> 1024,
   type |-> "application/vnd.openxmlformats-officedocument.wordprocessingml.document"]

FormFiles == {PdfFile, BigPdfFile, DocxFile}

\* App.tsx: the routes of the pages
PathOf(p) ==
  IF p = "dashboard" THEN "/"
  ELSE IF p = "proceedings" THEN "/proceedings"
  ELSE IF p = "firs" THEN "/firs"
  ELSE "/firs/:firId"

InitialFirForm == [writType |-> "BAIL", dateOfFIR |-> NoDate]

(***************************************************************************)
(* The state of a page right after it is mounted.                           *)
(***************************************************************************)
InitPageAs(p, w, user) ==
  /\ page = p
  /\ currentUser = user
  /\ serverFirs = ServerWrits
  /\ proceedings = <<>>
  /\ loading = TRUE
  /\ now = DateTime(Today)
  /\ latestByFIR = <<>>
  /\ upcomingHearings = <<>>
  /\ firs = {}
  /\ firsWithDrafts = {}
  /\ firSearchQuery = EmptyQuery
  /\ firSearchResults = {}
  /\ searchDelay = (p = "proceedings")
  /\ sinceArmed = 0
  /\ searches = <<>>
  /\ error = NoError
  /\ showForm = FALSE
  /\ formData = InitialFormData(NoFir)
  /\ orderOfProceedingFile = Null
  /\ noticeOfMotionFiles = <<>>
  /\ firId = w
  /\ fir = Null
  /\ firFormData = InitialFirForm
  /\ currentStep = 1
  /\ createdFIRId = NoFir
  /\ formSubmitting = FALSE
  /\ pending = <<>>
  /\ sent = Null
  /\ candidate = Null
  /\ verdicts = <<>>
  /\ location = PathOf(p)
  /\ requests = <<>>
  /\ outcome = Null
  /\ probes = Null
  /\ searchTerm = EmptyText
  /\ filterType = AllTypes
  /\ filterFIR = AnyFir
  /\ sortedInPlace = TRUE
  /\ cityGraph = <<>>

\* a page opened by a user who is logged in
InitPage(p, w) == InitPageAs(p, w, Some(LoggedIn))

RemoveAt(s, i) == SubSeq(s, 1, i - 1) \o SubSeq(s, i + 1, Len(s))

(***************************************************************************)
(* Proceedings page.                                                        *)
(***************************************************************************)
\* the writ that formData.fir names, looked up in firs, then in firSearchResults
SelectedIsQuashing(fd, firsNow, resultsNow) ==
  /\ fd.fir # NoFir
  /\ fd.fir \in firsNow \cup resultsNow
  /\ WritTypeOf(fd.fir) = "QUASHING"

\* the type select without the effect that resets ARGUMENT
ResetArgumentNever(fd, firsNow, resultsNow) == fd

\* the effect that resets ARGUMENT
ResetArgument(fd, firsNow, resultsNow) ==
  IF fd.type = "ARGUMENT" /\ fd.fir # NoFir /\ ~SelectedIsQuashing(fd, firsNow, resultsNow)
    THEN [fd EXCEPT !.type = "NOTICE_OF_MOTION"]
    ELSE fd

\* the options of the type select
OfferedTypes(fd, firsNow, resultsNow) ==
  {t \in ProceedingTypes : t # "ARGUMENT" \/ SelectedIsQuashing(fd, firsNow, resultsNow)}

\* the proceeding the server answers the n-th createProceeding call with
NewProceeding(n) ==
  [_id |-> 100 + n,
   fir |-> StrFir(QuashingWrit),
   sequence |-> n,
   createdAt |-> Today,
   dateOfHearing |-> Today + UrgentDays]

RequiredError == "Please fill in required fields (FIR and Hearing Date)"
AuthError == "Authentication required"
LoadError == "Failed to load proceedings"
CreateError == "Failed to create proceeding"
ServerFailure == "Request failed"

\* what a failed call throws: an Error with a message, or something else
ThrownErrors == {Some(ServerFailure), Null}

\* err instanceof Error ? err.message : fallback
ErrorText(err, fallback) == IF err # Null THEN err[1] ELSE fallback

\* what no handler of a page writes: the route, the session, the server, the clock
frame == <<page, currentUser, serverFirs, now, attachVars, apiVars, probes, filterVars, sortedInPlace, cityGraph>>

\* the same for a handler that sets the proceedings of the Proceedings page
listFrame == <<page, currentUser, serverFirs, now, attachVars, apiVars, probes, filterVars, cityGraph>>

\* what the Proceedings page does not have
notProceedings == <<detailVars, stepVars>>

\* the proceedings array as it is in memory
ProceedingsArray == IF sortedInPlace THEN SortForDisplay(proceedings) ELSE proceedings

\* the value of the filteredProceedings memo
filteredProceedings == FilteredProceedings(proceedings, searchTerm, filterType, filterFIR)

\* the render after setProceedings: the memo runs with the filters as they are
SortsInPlace == NoFilter(searchTerm, filterType, filterFIR)

\* the three controls above the list
SetFilters(term, type, writ) ==
  /\ page = "proceedings"
  /\ <<term, type, writ>> # <<searchTerm, filterType, filterFIR>>
  /\ searchTerm' = term
  /\ filterType' = type
  /\ filterFIR' = writ
  /\ sortedInPlace' = (sortedInPlace \/ NoFilter(term, type, writ))
  /\ sent' = Null
  /\ UNCHANGED <<page, currentUser, serverFirs, attachVars, apiVars, probes, notProceedings,
                 viewVars, writVars, searchVars, error, showForm, formData, fileVars, pending,
                 cityGraph>>

SetSearchTerm(term) == SetFilters(term, filterType, filterFIR)

SetFilterType(type) == SetFilters(searchTerm, type, filterFIR)

SetFilterFIR(writ) == SetFilters(searchTerm, filterType, writ)

\* a setter of the search effect's dependencies arms the timer again
Rearm(queryNow) == IF queryNow # firSearchQuery THEN TRUE ELSE searchDelay

\* the time the timer has run: a cleared timer starts anew
SinceRearm(queryNow) == IF queryNow # firSearchQuery THEN 0 ELSE sinceArmed

\* load(): everything after the two fetches and the draft probes succeeded
LoadProceedings(data, drafts) ==
  /\ page = "proceedings"
  /\ loading
  /\ proceedings' = data
  /\ latestByFIR' = LatestByFIR(data)
  /\ upcomingHearings' = UpcomingHearings(data, now)
  /\ firsWithDrafts' = drafts
  /\ firs' = serverFirs \ drafts
  /\ firSearchResults' = serverFirs \ drafts
  /\ error' = NoError
  /\ loading' = FALSE
  /\ searchDelay' = TRUE
  /\ sinceArmed' = 0
  /\ formData' = ResetArgument(formData, serverFirs \ drafts, serverFirs \ drafts)
  /\ sortedInPlace' = SortsInPlace
  /\ sent' = Null
  /\ UNCHANGED <<listFrame, notProceedings, firSearchQuery, searches, showForm, fileVars, pending>>

\* load(): the catch branch
LoadFailed ==
  /\ page = "proceedings"
  /\ loading
  /\ error' = LoadError
  /\ firs' = {}
  /\ firSearchResults' = {}
  /\ proceedings' = <<>>
  /\ latestByFIR' = LatestByFIR(<<>>)
  /\ upcomingHearings' = UpcomingHearings(<<>>, now)
  /\ loading' = FALSE
  /\ searchDelay' = TRUE
  /\ sinceArmed' = 0
  /\ formData' = ResetArgument(formData, {}, {})
  /\ sortedInPlace' = SortsInPlace
  /\ sent' = Null
  /\ UNCHANGED <<listFrame, notProceedings, firsWithDrafts, firSearchQuery, searches, showForm,
                 fileVars, pending>>

\* the "Add Proceeding" button and the BACK buttons
ToggleCreateForm ==
  /\ page = "proceedings"
  /\ showForm' = ~showForm
  /\ sent' = Null
  /\ UNCHANGED <<frame, notProceedings, viewVars, writVars, searchVars, error, formData,
                 fileVars, pending>>

\* the writ dropdown
SelectFir(w) ==
  /\ page = "proceedings"
  /\ showForm
  /\ ~loading
  /\ firs # {}
  /\ w \in firs \cup {NoFir}
  /\ w # formData.fir
  /\ formData' = ResetArgument([formData EXCEPT !.fir = w], firs, firSearchResults)
  /\ firSearchQuery' = IF w \in firs THEN Label(w) ELSE firSearchQuery
  /\ searchDelay' = Rearm(IF w \in firs THEN Label(w) ELSE firSearchQuery)
  /\ sinceArmed' = SinceRearm(IF w \in firs THEN Label(w) ELSE firSearchQuery)
  /\ sent' = Null
  /\ UNCHANGED <<frame, notProceedings, viewVars, writVars, firSearchResults, searches, error,
                 showForm, fileVars, pending>>

\* typing into the search input
SearchInput(q) ==
  /\ page = "proceedings"
  /\ showForm
  /\ q # firSearchQuery
  /\ firSearchQuery' = q
  /\ searchDelay' = TRUE
  /\ sinceArmed' = 0
  /\ formData' = IF q = EmptyQuery
                   THEN ResetArgument([formData EXCEPT !.fir = NoFir], firs, firSearchResults)
                   ELSE formData
  /\ sent' = Null
  /\ UNCHANGED <<frame, notProceedings, viewVars, writVars, firSearchResults, searches, error,
                 showForm, fileVars, pending>>

\* the debounce timer of the search effect fires
SearchTimer ==
  /\ page = "proceedings"
  /\ searchDelay
  /\ searchDelay' = FALSE
  /\ sinceArmed' = 0
  /\ IF Trim(firSearchQuery) = EmptyQuery
       THEN /\ firSearchResults' = firs
            /\ formData' = ResetArgument(formData, firs, firs)
            /\ UNCHANGED searches
       ELSE /\ Len(searches) < MaxQueued
            /\ searches' = Append(searches, [query |-> firSearchQuery, drafts |-> firsWithDrafts])
            /\ UNCHANGED <<firSearchResults, formData>>
  /\ sent' = Null
  /\ UNCHANGED <<frame, notProceedings, viewVars, writVars, firSearchQuery, error, showForm,
                 fileVars, pending>>

\* searchFIRs answers: the results without the writs that had a draft
SearchResolved(i, results) ==
  /\ page = "proceedings"
  /\ i \in 1..Len(searches)
  /\ firSearchResults' = results \ searches[i].drafts
  /\ formData' = ResetArgument(formData, firs, results \ searches[i].drafts)
  /\ searches' = RemoveAt(searches, i)
  /\ sent' = Null
  /\ UNCHANGED <<frame, notProceedings, viewVars, writVars, firSearchQuery, searchDelay, sinceArmed,
                 error,
                 showForm, fileVars, pending>>

\* searchFIRs fails
SearchFailed(i) ==
  /\ page = "proceedings"
  /\ i \in 1..Len(searches)
  /\ firSearchResults' = {}
  /\ formData' = ResetArgument(formData, firs, {})
  /\ searches' = RemoveAt(searches, i)
  /\ sent' = Null
  /\ UNCHANGED <<frame, notProceedings, viewVars, writVars, firSearchQuery, searchDelay, sinceArmed,
                 error,
                 showForm, fileVars, pending>>

\* a click on an entry of the search dropdown
PickSearchResult(w) ==
  /\ page = "proceedings"
  /\ showForm
  /\ w \in firSearchResults
  /\ formData' = ResetArgument([formData EXCEPT !.fir = w], firs, firSearchResults)
  /\ firSearchQuery' = Label(w)
  /\ searchDelay' = Rearm(Label(w))
  /\ sinceArmed' = SinceRearm(Label(w))
  /\ sent' = Null
  /\ UNCHANGED <<frame, notProceedings, viewVars, writVars, firSearchResults, searches, error,
                 showForm, fileVars, pending>>

\* the type select
SelectType(t) ==
  /\ page = "proceedings"
  /\ showForm
  /\ t \in OfferedTypes(formData, firs, firSearchResults)
  /\ t # formData.type
  /\ formData' = ResetArgument([formData EXCEPT !.type = t], firs, firSearchResults)
  /\ sent' = Null
  /\ UNCHANGED <<frame, notProceedings, viewVars, writVars, searchVars, error, showForm,
                 fileVars, pending>>

\* the hearing date input
SetHearingDate(d) ==
  /\ page = "proceedings"
  /\ showForm
  /\ d # formData.dateOfHearing
  /\ formData' = [formData EXCEPT !.dateOfHearing = d]
  /\ sent' = Null
  /\ UNCHANGED <<frame, notProceedings, viewVars, writVars, searchVars, error, showForm,
                 fileVars, pending>>

\* the sections of the form that are rendered for a type, on the Proceedings
\* page and on the writ detail page
RenderedSections(t) ==
  {"decisionDetails"}
    \cup (IF t = "NOTICE_OF_MOTION" \/ t = "TO_FILE_REPLY" THEN {"noticeOfMotion"} ELSE {})
    \cup (IF t = "TO_FILE_REPLY" THEN {"replyTracking"} ELSE {})
    \cup (IF t = "ARGUMENT" THEN {"argumentDetails"} ELSE {})

\* typing into a field of a section; the reply section writes entry 0 of noticeOfMotion
TypeInto(fd, s, index) ==
  IF s = "noticeOfMotion" THEN [fd EXCEPT !.noticeOfMotion[index + 1] = Typed]
  ELSE IF s = "replyTracking" THEN [fd EXCEPT !.replyTracking = Typed]
  ELSE IF s = "argumentDetails" THEN [fd EXCEPT !.argumentDetails = Typed]
  ELSE [fd EXCEPT !.decisionDetails = Typed]

EntryIndexes(fd) ==
  IF fd.type = "NOTICE_OF_MOTION" THEN 0..(Len(fd.noticeOfMotion) - 1) ELSE {0}

\* the onChange handlers of the fields of the type-specific sections
EditSection(s, index) ==
  /\ page = "proceedings"
  /\ showForm
  /\ s \in RenderedSections(formData.type)
  /\ index \in (IF s = "noticeOfMotion" THEN EntryIndexes(formData) ELSE {0})
  /\ TypeInto(formData, s, index) # formData
  /\ formData' = TypeInto(formData, s, index)
  /\ sent' = Null
  /\ UNCHANGED <<frame, notProceedings, viewVars, writVars, searchVars, error, showForm,
                 fileVars, pending>>

\* addNoticeOfMotionEntry on a form of fewer than cap entries
addNoticeOfMotionEntryWithin(cap) ==
  /\ page = "proceedings"
  /\ showForm
  /\ formData.type = "NOTICE_OF_MOTION"
  /\ Len(formData.noticeOfMotion) < cap
  /\ formData' = [formData EXCEPT !.noticeOfMotion = Append(@, Blank)]
  /\ sent' = Null
  /\ UNCHANGED <<frame, notProceedings, viewVars, writVars, searchVars, error, showForm,
                 fileVars, pending>>

addNoticeOfMotionEntry == addNoticeOfMotionEntryWithin(MaxEntries)

\* Map.set and Map.delete on noticeOfMotionFiles
FilesSet(m, k, file) == [i \in DOMAIN m \cup {k} |-> IF i = k THEN file ELSE m[i]]
FilesDelete(m, k) == [i \in DOMAIN m \ {k} |-> m[i]]

\* the re-indexing of noticeOfMotionFiles after entry index is removed
FilesReindex(m, index) ==
  [i \in {k \in DOMAIN m : k < index} \cup {k - 1 : k \in {j \in DOMAIN m : j > index}} |->
     IF i < index /\ i \in DOMAIN m THEN m[i] ELSE m[i + 1]]

removeNoticeOfMotionEntry(index) ==
  /\ page = "proceedings"
  /\ showForm
  /\ formData.type = "NOTICE_OF_MOTION"
  /\ Len(formData.noticeOfMotion) > 1
  /\ index \in 0..(Len(formData.noticeOfMotion) - 1)
  /\ formData' = [formData EXCEPT !.noticeOfMotion = RemoveAt(@, index + 1)]
  /\ noticeOfMotionFiles' = FilesReindex(noticeOfMotionFiles, index)
  /\ sent' = Null
  /\ UNCHANGED <<frame, notProceedings, viewVars, writVars, searchVars, error, showForm,
                 orderOfProceedingFile, pending>>

\* the file input of a notice-of-motion entry
SelectNoticeFile(index, file) ==
  /\ page = "proceedings"
  /\ showForm
  /\ formData.type = "NOTICE_OF_MOTION"
  /\ index \in 0..(Len(formData.noticeOfMotion) - 1)
  /\ IF NoticeFileError(file) # NoError
       THEN /\ error' = NoticeFileError(file)
            /\ UNCHANGED noticeOfMotionFiles
       ELSE /\ noticeOfMotionFiles' = FilesSet(noticeOfMotionFiles, index, file)
            /\ error' = NoError
  /\ sent' = Null
  /\ UNCHANGED <<frame, notProceedings, viewVars, writVars, searchVars, showForm, formData,
                 orderOfProceedingFile, pending>>

RemoveNoticeFile(index) ==
  /\ page = "proceedings"
  /\ showForm
  /\ formData.type = "NOTICE_OF_MOTION"
  /\ index \in DOMAIN noticeOfMotionFiles
  /\ index < Len(formData.noticeOfMotion)
  /\ noticeOfMotionFiles' = FilesDelete(noticeOfMotionFiles, index)
  /\ sent' = Null
  /\ UNCHANGED <<frame, notProceedings, viewVars, writVars, searchVars, error, showForm,
                 formData, orderOfProceedingFile, pending>>

\* the file input of the reply section
SelectReplyFile(file) ==
  /\ page = "proceedings"
  /\ showForm
  /\ formData.type = "TO_FILE_REPLY"
  /\ IF ReplyFileError(file) # NoError
       THEN /\ error' = ReplyFileError(file)
            /\ UNCHANGED orderOfProceedingFile
       ELSE /\ orderOfProceedingFile' = Some(file)
            /\ error' = NoError
  /\ sent' = Null
  /\ UNCHANGED <<frame, notProceedings, viewVars, writVars, searchVars, showForm, formData,
                 noticeOfMotionFiles, pending>>

\* the file input of the decision section
SelectOrderFile(file) ==
  /\ page = "proceedings"
  /\ showForm
  /\ IF OrderFileError(file) # NoError
       THEN /\ error' = OrderFileError(file)
            /\ UNCHANGED orderOfProceedingFile
       ELSE /\ orderOfProceedingFile' = Some(file)
            /\ error' = NoError
  /\ sent' = Null
  /\ UNCHANGED <<frame, notProceedings, viewVars, writVars, searchVars, showForm, formData,
                 noticeOfMotionFiles, pending>>

\* the x buttons next to the name of the stored file
RemoveOrderFile ==
  /\ page = "proceedings"
  /\ showForm
  /\ orderOfProceedingFile # Null
  /\ orderOfProceedingFile' = Null
  /\ sent' = Null
  /\ UNCHANGED <<frame, notProceedings, viewVars, writVars, searchVars, error, showForm,
                 formData, noticeOfMotionFiles, pending>>

\* handleSubmit, up to the call of createProceeding
HandleSubmit ==
  /\ page = "proceedings"
  /\ showForm
  /\ IF formData.fir = NoFir \/ formData.dateOfHearing = NoDate
       THEN error' = RequiredError /\ sent' = Null /\ UNCHANGED pending
     ELSE IF currentUser = Null
       THEN error' = AuthError /\ sent' = Null /\ UNCHANGED pending
     ELSE IF orderOfProceedingFile # Null /\ SubmitFileError(orderOfProceedingFile[1]) # NoError
       THEN error' = SubmitFileError(orderOfProceedingFile[1]) /\ sent' = Null /\ UNCHANGED pending
     ELSE /\ Len(proceedings) + Len(pending) < MaxCreated
          /\ error' = NoError
          /\ sent' = Some([payload |-> BuildPayload(formData), file |-> orderOfProceedingFile])
          /\ pending' = Append(pending, [call |-> "createProceeding"])
  /\ UNCHANGED <<frame, notProceedings, viewVars, writVars, searchVars, showForm, formData,
                 fileVars>>

\* handleSubmit, after createProceeding answered with the new proceeding
CreateProceedingResolved(i) ==
  /\ page = "proceedings"
  /\ i \in 1..Len(pending)
  /\ pending[i].call = "createProceeding"
  /\ LET list == <<NewProceeding(Len(proceedings) + 1)>> \o ProceedingsArray
     IN  /\ proceedings' = list
         /\ latestByFIR' = LatestByFIR(list)
         /\ upcomingHearings' = UpcomingHearings(list, now)
  /\ showForm' = FALSE
  /\ orderOfProceedingFile' = Null
  /\ formData' = ResetArgument(InitialFormData(NoFir), firs, firSearchResults)
  /\ pending' = RemoveAt(pending, i)
  /\ sortedInPlace' = SortsInPlace
  /\ sent' = Null
  /\ UNCHANGED <<listFrame, notProceedings, loading, writVars, searchVars, error,
                 noticeOfMotionFiles>>

\* a catch branch that also closes the form
CreateProceedingRejectedClosing(i, err) ==
  /\ page = "proceedings"
  /\ i \in 1..Len(pending)
  /\ pending[i].call = "createProceeding"
  /\ error' = ErrorText(err, CreateError)
  /\ showForm' = FALSE
  /\ pending' = RemoveAt(pending, i)
  /\ sent' = Null
  /\ UNCHANGED <<frame, notProceedings, viewVars, writVars, searchVars, formData, fileVars>>

\* handleSubmit, after createProceeding failed
CreateProceedingRejected(i, err) ==
  /\ page = "proceedings"
  /\ i \in 1..Len(pending)
  /\ pending[i].call = "createProceeding"
  /\ error' = ErrorText(err, CreateError)
  /\ pending' = RemoveAt(pending, i)
  /\ sent' = Null
  /\ UNCHANGED <<frame, notProceedings, viewVars, writVars, searchVars, showForm, formData,
                 fileVars>>

(***************************************************************************)
(* Writ detail page (FIRDetail).                                            *)
(***************************************************************************)
DetailRequiredError == "Please fill in required fields (Hearing Date)"
DetailLoadError == "Unable to load FIR"

\* what the writ detail page does not have
notDetail == <<latestByFIR, upcomingHearings, writVars, searchVars, noticeOfMotionFiles, stepVars>>

\* the page shows the writ and the form toggle only past these early returns
DetailShown == ~loading /\ error = NoError /\ fir # Null

\* load(): both fetches succeeded
\* a.sequence ?? 0 of the sortedProceedings memo
SeqOrZero(p) == IF p.sequence = NoSeq THEN 0 ELSE p.sequence

\* the comparator of the sortedProceedings memo: negative when a comes first
TimelineCompare(a, b) ==
  IF SeqOrZero(a) = SeqOrZero(b)
    THEN CreatedTime(b) - CreatedTime(a)
    ELSE SeqOrZero(b) - SeqOrZero(a)

\* Array.prototype.sort is stable: p goes behind every element that does not
\* compare after it
InsertInTimeline(sorted, p) ==
  InsertAt(sorted,
           Cardinality({i \in 1..Len(sorted) : TimelineCompare(sorted[i], p) <= 0}),
           p)

RECURSIVE TimelineFold(_, _, _)
TimelineFold(acc, list, i) ==
  IF i > Len(list) THEN acc ELSE TimelineFold(InsertInTimeline(acc, list[i]), list, i + 1)

SortedProceedings(list) == TimelineFold(<<>>, list, 1)

\* the sortedProceedings memo of the writ page
sortedProceedings == SortedProceedings(proceedings)

\* load() of the writ page, with the proceedings fetchProceedingsByFIR returned
DetailLoadWith(proceedingsData) ==
  /\ page = "firDetail"
  /\ loading
  /\ fir' = Some(firId)
  /\ proceedings' = proceedingsData
  /\ formData' = [formData EXCEPT !.fir = firId]
  /\ error' = NoError
  /\ loading' = FALSE
  /\ sent' = Null
  /\ UNCHANGED <<frame, notDetail, firId, showForm, orderOfProceedingFile, pending>>

DetailLoad == DetailLoadWith(<<>>)

\* load(): the catch branch
DetailLoadFailed ==
  /\ page = "firDetail"
  /\ loading
  /\ error' = DetailLoadError
  /\ loading' = FALSE
  /\ sent' = Null
  /\ UNCHANGED <<frame, notDetail, detailVars, proceedings, showForm, formData,
                 orderOfProceedingFile, pending>>

\* the "Record New Proceeding" button and the BACK button
DetailToggleForm ==
  /\ page = "firDetail"
  /\ DetailShown
  /\ showForm' = ~showForm
  /\ sent' = Null
  /\ UNCHANGED <<frame, notDetail, detailVars, proceedings, loading, error, formData,
                 orderOfProceedingFile, pending>>

\* the type select: every entry of PROCEEDING_TYPE_OPTIONS
DetailSelectType(t) ==
  /\ page = "firDetail"
  /\ DetailShown
  /\ showForm
  /\ t \in ProceedingTypes
  /\ t # formData.type
  /\ formData' = [formData EXCEPT !.type = t]
  /\ sent' = Null
  /\ UNCHANGED <<frame, notDetail, detailVars, proceedings, loading, error, showForm,
                 orderOfProceedingFile, pending>>

DetailSetHearingDate(d) ==
  /\ page = "firDetail"
  /\ DetailShown
  /\ showForm
  /\ d # formData.dateOfHearing
  /\ formData' = [formData EXCEPT !.dateOfHearing = d]
  /\ sent' = Null
  /\ UNCHANGED <<frame, notDetail, detailVars, proceedings, loading, error, showForm,
                 orderOfProceedingFile, pending>>

DetailEditSection(s) ==
  /\ page = "firDetail"
  /\ DetailShown
  /\ showForm
  /\ s \in RenderedSections(formData.type)
  /\ TypeInto(formData, s, 0) # formData
  /\ formData' = TypeInto(formData, s, 0)
  /\ sent' = Null
  /\ UNCHANGED <<frame, notDetail, detailVars, proceedings, loading, error, showForm,
                 orderOfProceedingFile, pending>>

\* the file input of the decision section
DetailSelectOrderFile(file) ==
  /\ page = "firDetail"
  /\ DetailShown
  /\ showForm
  /\ IF DetailOrderFileError(file) # NoError
       THEN /\ error' = DetailOrderFileError(file)
            /\ UNCHANGED orderOfProceedingFile
       ELSE /\ orderOfProceedingFile' = Some(file)
            /\ error' = NoError
  /\ sent' = Null
  /\ UNCHANGED <<frame, notDetail, detailVars, proceedings, loading, showForm, formData,
                 pending>>

DetailRemoveOrderFile ==
  /\ page = "firDetail"
  /\ DetailShown
  /\ showForm
  /\ orderOfProceedingFile # Null
  /\ orderOfProceedingFile' = Null
  /\ sent' = Null
  /\ UNCHANGED <<frame, notDetail, detailVars, proceedings, loading, error, showForm,
                 formData, pending>>

\* handleProceedingSubmit, up to the call of createProceeding
DetailHandleSubmit ==
  /\ page = "firDetail"
  /\ DetailShown
  /\ showForm
  /\ IF formData.fir = NoFir \/ formData.dateOfHearing = NoDate
       THEN error' = DetailRequiredError /\ sent' = Null /\ UNCHANGED pending
     ELSE IF currentUser = Null
       THEN error' = AuthError /\ sent' = Null /\ UNCHANGED pending
     ELSE IF firId = NoFir
       THEN error' = "FIR ID is missing" /\ sent' = Null /\ UNCHANGED pending
     ELSE IF orderOfProceedingFile # Null
               /\ DetailSubmitFileError(orderOfProceedingFile[1]) # NoError
       THEN /\ error' = DetailSubmitFileError(orderOfProceedingFile[1])
            /\ sent' = Null
            /\ UNCHANGED pending
     ELSE /\ Len(proceedings) + Len(pending) < MaxCreated
          /\ error' = NoError
          /\ sent' = Some([payload |-> BuildDetailPayload(firId, formData),
                           file |-> orderOfProceedingFile])
          /\ pending' = Append(pending, [call |-> "createProceeding"])
  /\ UNCHANGED <<frame, notDetail, detailVars, proceedings, loading, showForm, formData,
                 orderOfProceedingFile>>

\* handleProceedingSubmit, after createProceeding answered with the new proceeding
DetailCreateResolved(i) ==
  /\ page = "firDetail"
  /\ i \in 1..Len(pending)
  /\ pending[i].call = "createProceeding"
  /\ proceedings' = <<NewProceeding(Len(proceedings) + 1)>> \o proceedings
  /\ showForm' = FALSE
  /\ orderOfProceedingFile' = Null
  /\ formData' = InitialFormData(firId)
  /\ pending' = RemoveAt(pending, i)
  /\ sent' = Null
  /\ UNCHANGED <<frame, notDetail, detailVars, loading, error>>

\* handleProceedingSubmit, after createProceeding failed
DetailCreateRejected(i, err) ==
  /\ page = "firDetail"
  /\ i \in 1..Len(pending)
  /\ pending[i].call = "createProceeding"
  /\ error' = ErrorText(err, CreateError)
  /\ pending' = RemoveAt(pending, i)
  /\ sent' = Null
  /\ UNCHANGED <<frame, notDetail, detailVars, proceedings, loading, showForm, formData,
                 orderOfProceedingFile>>

(***************************************************************************)
(* Writs page (FIRs): the two-step writ-creation form.                      *)
(***************************************************************************)
FirIdError == "FIR ID is missing. Please go back and try again."
CreateFirError == "Failed to create FIR"
SaveDraftError == "Failed to save draft"
DraftNotFound == "Draft not found"
LoadDraftError == "Failed to load draft"

WritTypeInputs == {"BAIL", "QUASHING"}

DateOfFirInputs == {NoDate, Today + UrgentDays}

\* what the writs page does not have
notFirs == <<proceedings, latestByFIR, upcomingHearings, searchVars, noticeOfMotionFiles,
             detailVars>>

\* the id the server gives to the next writ; its parity tells the writ type
NewWritId(t) ==
  2 * Cardinality(serverFirs) + (IF t = "QUASHING" THEN 1 ELSE 2)

\* load(): the list and the draft probes
FirsLoad(drafts) ==
  /\ page = "firs"
  /\ loading
  /\ firs' = serverFirs
  /\ firsWithDrafts' = drafts
  /\ loading' = FALSE
  /\ sent' = Null
  /\ UNCHANGED <<frame, notFirs, stepVars, error, showForm, formData, orderOfProceedingFile,
                 pending>>

\* the "Create New Writ" / "Close Form" button
ToggleFormOpen ==
  /\ page = "firs"
  /\ showForm' = ~showForm
  /\ sent' = Null
  /\ UNCHANGED <<frame, notFirs, stepVars, writVars, loading, error, formData,
                 orderOfProceedingFile, pending>>

\* handleInputChange on the fields of step 1
EditFirForm(t, d) ==
  /\ page = "firs"
  /\ showForm
  /\ currentStep = 1
  /\ [writType |-> t, dateOfFIR |-> d] # firFormData
  /\ firFormData' = [writType |-> t, dateOfFIR |-> d]
  /\ sent' = Null
  /\ UNCHANGED <<frame, notFirs, writVars, loading, error, showForm, formData,
                 orderOfProceedingFile, currentStep, createdFIRId, formSubmitting, pending>>

\* the BACK button of step 1
CancelFirForm ==
  /\ page = "firs"
  /\ showForm
  /\ currentStep = 1
  /\ firFormData' = InitialFirForm
  /\ showForm' = FALSE
  /\ error' = NoError
  /\ currentStep' = 1
  /\ createdFIRId' = NoFir
  /\ sent' = Null
  /\ UNCHANGED <<frame, notFirs, writVars, loading, formData, orderOfProceedingFile,
                 formSubmitting, pending>>

\* handleSubmit of step 1, up to the call of createFIR, with at most cap
\* requests in flight
SubmitFirFormWithin(cap) ==
  /\ page = "firs"
  /\ showForm
  /\ currentStep = 1
  /\ ~formSubmitting
  /\ Len(pending) < cap
  /\ Cardinality(serverFirs) < Cardinality(ServerWrits) + MaxCreatedWrits
  /\ formSubmitting' = TRUE
  /\ error' = NoError
  /\ pending' = Append(pending, [call |-> "createFIR",
                                 writType |-> firFormData.writType,
                                 dateOfFIR |-> firFormData.dateOfFIR])
  /\ sent' = Null
  /\ UNCHANGED <<frame, notFirs, writVars, loading, showForm, formData, orderOfProceedingFile,
                 firFormData, currentStep, createdFIRId>>

SubmitFirForm == SubmitFirFormWithin(MaxInFlight)

\* handleSubmit of step 1, after createFIR and the refresh of the list answered
CreateFirResolved(i) ==
  /\ page = "firs"
  /\ i \in 1..Len(pending)
  /\ pending[i].call = "createFIR"
  /\ serverFirs' = serverFirs \cup {NewWritId(pending[i].writType)}
  /\ firs' = serverFirs \cup {NewWritId(pending[i].writType)}
  /\ createdFIRId' = NewWritId(pending[i].writType)
  /\ currentStep' = 2
  /\ formData' = [formData EXCEPT !.dateOfHearing = pending[i].dateOfFIR]
  /\ formSubmitting' = FALSE
  /\ pending' = RemoveAt(pending, i)
  /\ sent' = Null
  /\ UNCHANGED <<page, currentUser, now, attachVars, apiVars, probes, filterVars, sortedInPlace, cityGraph, notFirs, firsWithDrafts, loading, error,
                 showForm, orderOfProceedingFile, firFormData>>

\* handleSubmit of step 1, after createFIR failed
CreateFirRejected(i) ==
  /\ page = "firs"
  /\ i \in 1..Len(pending)
  /\ pending[i].call = "createFIR"
  /\ error' = CreateFirError
  /\ formSubmitting' = FALSE
  /\ pending' = RemoveAt(pending, i)
  /\ sent' = Null
  /\ UNCHANGED <<frame, notFirs, writVars, loading, showForm, formData, orderOfProceedingFile,
                 firFormData, currentStep, createdFIRId>>

handleBackToStep1 ==
  /\ page = "firs"
  /\ showForm
  /\ currentStep = 2
  /\ currentStep' = 1
  /\ sent' = Null
  /\ UNCHANGED <<frame, notFirs, writVars, loading, error, showForm, formData,
                 orderOfProceedingFile, firFormData, createdFIRId, formSubmitting, pending>>

\* step 2 is on the screen
StepShown == showForm /\ currentStep = 2

\* the type select of step 2: four options written out, ARGUMENT among them
StepSelectType(t) ==
  /\ page = "firs"
  /\ StepShown
  /\ t \in {"NOTICE_OF_MOTION", "TO_FILE_REPLY", "ARGUMENT", "DECISION"}
  /\ t # formData.type
  /\ formData' = [formData EXCEPT !.type = t]
  /\ sent' = Null
  /\ UNCHANGED <<frame, notFirs, stepVars, writVars, loading, error, showForm,
                 orderOfProceedingFile, pending>>

StepSetHearingDate(d) ==
  /\ page = "firs"
  /\ StepShown
  /\ d # formData.dateOfHearing
  /\ formData' = [formData EXCEPT !.dateOfHearing = d]
  /\ sent' = Null
  /\ UNCHANGED <<frame, notFirs, stepVars, writVars, loading, error, showForm,
                 orderOfProceedingFile, pending>>

\* the sections of step 2 that are rendered for a type
StepRenderedSections(t) ==
  {"decisionDetails"}
    \cup (IF t = "NOTICE_OF_MOTION" THEN {"noticeOfMotion"} ELSE {})
    \cup (IF t = "ARGUMENT" THEN {"argumentDetails"} ELSE {})

StepEditSection(s) ==
  /\ page = "firs"
  /\ StepShown
  /\ s \in StepRenderedSections(formData.type)
  /\ TypeInto(formData, s, 0) # formData
  /\ formData' = TypeInto(formData, s, 0)
  /\ sent' = Null
  /\ UNCHANGED <<frame, notFirs, stepVars, writVars, loading, error, showForm,
                 orderOfProceedingFile, pending>>

\* the file input of the decision section of step 2
StepSelectOrderFile(file) ==
  /\ page = "firs"
  /\ StepShown
  /\ IF StepOrderFileError(file) # NoError
       THEN /\ error' = StepOrderFileError(file)
            /\ UNCHANGED orderOfProceedingFile
       ELSE /\ orderOfProceedingFile' = Some(file)
            /\ error' = NoError
  /\ sent' = Null
  /\ UNCHANGED <<frame, notFirs, stepVars, writVars, loading, showForm, formData, pending>>

StepRemoveOrderFile ==
  /\ page = "firs"
  /\ StepShown
  /\ orderOfProceedingFile # Null
  /\ orderOfProceedingFile' = Null
  /\ sent' = Null
  /\ UNCHANGED <<frame, notFirs, stepVars, writVars, loading, error, showForm, formData,
                 pending>>

\* handleSaveDraft, up to the call of createProceeding, with at most cap
\* requests in flight
SaveDraftWithin(cap) ==
  /\ page = "firs"
  /\ StepShown
  /\ ~formSubmitting
  /\ IF createdFIRId = NoFir
       THEN error' = FirIdError /\ sent' = Null /\ UNCHANGED <<formSubmitting, pending>>
     ELSE IF orderOfProceedingFile # Null
               /\ SaveDraftFileError(orderOfProceedingFile[1]) # NoError
       THEN /\ error' = SaveDraftFileError(orderOfProceedingFile[1])
            /\ sent' = Null
            /\ UNCHANGED <<formSubmitting, pending>>
     ELSE /\ Len(pending) < cap
          /\ formSubmitting' = TRUE
          /\ error' = NoError
          /\ sent' = Some([payload |-> BuildStepPayload(createdFIRId, formData,
                                                        DraftDate(formData, now), TRUE),
                           file |-> orderOfProceedingFile])
          /\ pending' = Append(pending, [call |-> "saveDraft"])
  /\ UNCHANGED <<frame, notFirs, writVars, loading, showForm, formData, orderOfProceedingFile,
                 firFormData, currentStep, createdFIRId>>

handleSaveDraft == SaveDraftWithin(MaxInFlight)

\* handleSaveDraft, after createProceeding answered; refreshed tells whether
\* the fetchFIRs that follows succeeded
SaveDraftResolved(i, refreshed) ==
  /\ page = "firs"
  /\ i \in 1..Len(pending)
  /\ pending[i].call = "saveDraft"
  /\ showForm' = FALSE
  /\ currentStep' = 1
  /\ orderOfProceedingFile' = Null
  /\ IF refreshed
       THEN firs' = serverFirs /\ UNCHANGED error
       ELSE error' = SaveDraftError /\ UNCHANGED firs
  /\ formSubmitting' = FALSE
  /\ pending' = RemoveAt(pending, i)
  /\ sent' = Null
  /\ UNCHANGED <<frame, notFirs, firsWithDrafts, loading, formData, firFormData, createdFIRId>>

\* handleSaveDraft, after createProceeding failed
SaveDraftRejected(i) ==
  /\ page = "firs"
  /\ i \in 1..Len(pending)
  /\ pending[i].call = "saveDraft"
  /\ error' = SaveDraftError
  /\ formSubmitting' = FALSE
  /\ pending' = RemoveAt(pending, i)
  /\ sent' = Null
  /\ UNCHANGED <<frame, notFirs, writVars, loading, showForm, formData, orderOfProceedingFile,
                 firFormData, currentStep, createdFIRId>>

\* handleProceedingSubmit of step 2, up to the call of createProceeding, with
\* at most cap requests in flight
StepSubmitWithin(cap) ==
  /\ page = "firs"
  /\ StepShown
  /\ ~formSubmitting
  /\ IF createdFIRId = NoFir
       THEN error' = FirIdError /\ sent' = Null /\ UNCHANGED <<formSubmitting, pending>>
     ELSE IF orderOfProceedingFile # Null
               /\ StepSubmitFileError(orderOfProceedingFile[1]) # NoError
       THEN /\ error' = StepSubmitFileError(orderOfProceedingFile[1])
            /\ sent' = Null
            /\ UNCHANGED <<formSubmitting, pending>>
     ELSE /\ Len(pending) < cap
          /\ formSubmitting' = TRUE
          /\ error' = NoError
          /\ sent' = Some([payload |-> BuildStepPayload(createdFIRId, formData,
                                                        formData.dateOfHearing, FALSE),
                           file |-> orderOfProceedingFile])
          /\ pending' = Append(pending, [call |-> "createProceeding"])
  /\ UNCHANGED <<frame, notFirs, writVars, loading, showForm, formData, orderOfProceedingFile,
                 firFormData, currentStep, createdFIRId>>

StepHandleSubmit == StepSubmitWithin(MaxInFlight)

\* handleProceedingSubmit of step 2, after createProceeding answered
StepSubmitResolved(i, refreshed) ==
  /\ page = "firs"
  /\ i \in 1..Len(pending)
  /\ pending[i].call = "createProceeding"
  /\ firFormData' = InitialFirForm
  /\ formData' = InitialFormData(NoFir)
  /\ orderOfProceedingFile' = Null
  /\ createdFIRId' = NoFir
  /\ currentStep' = 1
  /\ showForm' = FALSE
  /\ IF refreshed
       THEN firs' = serverFirs /\ UNCHANGED error
       ELSE error' = CreateError /\ UNCHANGED firs
  /\ formSubmitting' = FALSE
  /\ pending' = RemoveAt(pending, i)
  /\ sent' = Null
  /\ UNCHANGED <<frame, notFirs, firsWithDrafts, loading>>

\* handleProceedingSubmit of step 2, after createProceeding failed
StepSubmitRejected(i, err) ==
  /\ page = "firs"
  /\ i \in 1..Len(pending)
  /\ pending[i].call = "createProceeding"
  /\ error' = ErrorText(err, CreateError)
  /\ formSubmitting' = FALSE
  /\ pending' = RemoveAt(pending, i)
  /\ sent' = Null
  /\ UNCHANGED <<frame, notFirs, writVars, loading, showForm, formData, orderOfProceedingFile,
                 firFormData, currentStep, createdFIRId>>

\* the drafts the server may hold for a writ: what handleSaveDraft stored
DraftForms ==
  {[fir |-> NoFir, type |-> t, dateOfHearing |-> Today + UrgentDays, noticeOfMotion |-> <<Typed>>,
    replyTracking |-> Blank, argumentDetails |-> Typed, decisionDetails |-> Typed] :
     t \in ProceedingTypes}

DraftsOf(w) == {BuildStepPayload(w, fd, DraftDate(fd, DateTime(Today)), TRUE) : fd \in DraftForms}

\* setProceedingFormData of handleResumeDraft
FormFromDraft(draft, fd) ==
  [fir |-> fd.fir,
   type |-> draft.type,
   dateOfHearing |-> draft.dateOfHearing,
   noticeOfMotion |->
     IF draft.noticeOfMotion # Null THEN draft.noticeOfMotion[1].entries ELSE fd.noticeOfMotion,
   replyTracking |->
     IF draft.replyTracking # Null THEN draft.replyTracking[1] ELSE fd.replyTracking,
   argumentDetails |->
     IF draft.argumentDetails # Null THEN draft.argumentDetails[1] ELSE fd.argumentDetails,
   decisionDetails |->
     IF draft.decisionDetails # Null THEN draft.decisionDetails[1] ELSE fd.decisionDetails]

\* handleResumeDraft, up to the call of fetchDraftProceedingByFIR, with at
\* most cap requests in flight
ResumeDraftWithin(w, cap) ==
  /\ page = "firs"
  /\ ~showForm
  /\ w \in firs
  /\ w \in firsWithDrafts
  /\ Len(pending) < cap
  /\ formSubmitting' = TRUE
  /\ error' = NoError
  /\ pending' = Append(pending, [call |-> "fetchDraft", fir |-> w])
  /\ sent' = Null
  /\ UNCHANGED <<frame, notFirs, writVars, loading, showForm, formData, orderOfProceedingFile,
                 firFormData, currentStep, createdFIRId>>

handleResumeDraft(w) == ResumeDraftWithin(w, MaxInFlight)

\* handleResumeDraft, after the draft arrived
ResumeDraftResolved(i, draft) ==
  /\ page = "firs"
  /\ i \in 1..Len(pending)
  /\ pending[i].call = "fetchDraft"
  /\ draft.fir = pending[i].fir
  /\ firFormData' = [writType |-> WritTypeOf(pending[i].fir), dateOfFIR |-> Today + UrgentDays]
  /\ formData' = FormFromDraft(draft, formData)
  /\ createdFIRId' = pending[i].fir
  /\ currentStep' = 2
  /\ showForm' = TRUE
  /\ formSubmitting' = FALSE
  /\ pending' = RemoveAt(pending, i)
  /\ sent' = Null
  /\ UNCHANGED <<frame, notFirs, writVars, loading, error, orderOfProceedingFile>>

\* handleResumeDraft, when there is no draft or the fetch failed
ResumeDraftFailed(i, message) ==
  /\ page = "firs"
  /\ i \in 1..Len(pending)
  /\ pending[i].call = "fetchDraft"
  /\ error' = message
  /\ formSubmitting' = FALSE
  /\ pending' = RemoveAt(pending, i)
  /\ sent' = Null
  /\ UNCHANGED <<frame, notFirs, writVars, loading, showForm, formData, orderOfProceedingFile,
                 firFormData, currentStep, createdFIRId>>

\* time passes; the memo is not re-evaluated
Tick ==
  /\ now + 1 \in NowValues
  /\ now' = now + 1
  /\ sent' = Null
  /\ UNCHANGED <<page, currentUser, serverFirs, attachVars, apiVars, probes, filterVars, sortedInPlace, cityGraph, proceedings, loading, latestByFIR,
                 upcomingHearings, writVars, searchVars, error, showForm, formData, fileVars,
                 detailVars, stepVars, pending>>

(***************************************************************************)
(* The list derivation of the Proceedings page.                             *)
(***************************************************************************)
InitView == InitPage("proceedings", NoFir)

NextView ==
  \/ \E data \in ServerLists : LoadProceedings(data, {})
  \/ Tick

SpecView == InitView /\ [][NextView]_vars

(***************************************************************************)
(* The writ selection and the type select of the Proceedings page.          *)
(***************************************************************************)
InitArgument == InitPage("proceedings", NoFir)

NextArgument ==
  \/ \E drafts \in {{}, {QuashingWrit}} : LoadProceedings(<<>>, drafts)
  \/ LoadFailed
  \/ ToggleCreateForm
  \/ \E w \in ServerWrits \cup {NoFir} : SelectFir(w)
  \/ \E q \in {EmptyQuery, TypedQuery} : SearchInput(q)
  \/ (Trim(firSearchQuery) = EmptyQuery \/ Len(searches) < MaxSearches) /\ SearchTimer
  \/ \E i \in 1..MaxSearches, results \in SUBSET ServerWrits : SearchResolved(i, results)
  \/ \E i \in 1..MaxSearches : SearchFailed(i)
  \/ \E w \in ServerWrits : PickSearchResult(w)
  \/ \E t \in ProceedingTypes : SelectType(t)
  \/ \E d \in HearingDateInputs : SetHearingDate(d)
  \/ HandleSubmit
  \/ \E i \in 1..MaxCreated : CreateProceedingResolved(i)

SpecArgument == InitArgument /\ [][NextArgument]_vars

(***************************************************************************)
(* The debounced writ search of the Proceedings page.                       *)
(***************************************************************************)
DebounceMs == 300

\* time passes while the debounce timer runs
Wait ==
  /\ page = "proceedings"
  /\ searchDelay
  /\ sinceArmed * TickMs < DebounceMs
  /\ sinceArmed' = sinceArmed + 1
  /\ sent' = Null
  /\ UNCHANGED <<frame, notProceedings, viewVars, writVars, firSearchQuery, firSearchResults,
                 searchDelay, searches, error, showForm, formData, fileVars, pending>>

\* a timer that fires without the delay
SearchTimerAnyTime == SearchTimer

\* setTimeout(..., 300): the timer fires once the delay has passed
SearchTimerDue ==
  /\ sinceArmed * TickMs >= DebounceMs
  /\ SearchTimer

\* searchFIRs(query) on the server: the writs a query finds
Matches(q) ==
  IF q = TypedQuery THEN serverFirs ELSE {w \in serverFirs : Label(w) = q}

SearchQueries == {EmptyQuery, BlankQuery, TypedQuery, Label(QuashingWrit)}

InitSearch == InitPage("proceedings", NoFir)

NextSearch ==
  \/ \E drafts \in {{}, {BailWrit}} : LoadProceedings(<<>>, drafts)
  \/ ToggleCreateForm
  \/ \E q \in SearchQueries : SearchInput(q)
  \/ Wait
  \/ SearchTimerDue
  \/ \E i \in 1..MaxQueued : i <= Len(searches) /\ SearchResolved(i, Matches(searches[i].query))
  \/ \E w \in ServerWrits : PickSearchResult(w)

SpecSearch == InitSearch /\ [][NextSearch]_vars

(***************************************************************************)
(* The initial load of the Proceedings page, with cached lists.             *)
(***************************************************************************)
\* load(): the cached lists are set before the fetches begin
LoadCached(cachedProceedings, cachedFirs) ==
  /\ page = "proceedings"
  /\ loading
  /\ error = NoError
  /\ ~showForm
  /\ proceedings = <<>> /\ firs = {} /\ firSearchResults = {}
  /\ cachedProceedings # <<>> \/ cachedFirs # {}
  /\ proceedings' = cachedProceedings
  /\ latestByFIR' = LatestByFIR(cachedProceedings)
  /\ upcomingHearings' = UpcomingHearings(cachedProceedings, now)
  /\ firs' = cachedFirs
  /\ firSearchResults' = cachedFirs
  /\ searchDelay' = TRUE
  /\ sinceArmed' = 0
  /\ formData' = ResetArgument(formData, cachedFirs, cachedFirs)
  /\ sortedInPlace' = SortsInPlace
  /\ sent' = Null
  /\ UNCHANGED <<listFrame, notProceedings, firsWithDrafts, firSearchQuery, searches, loading, error,
                 showForm, fileVars, pending>>

\* the lists the cache may hold
CachedLists == ListsOver(DayPool, MaxPair)

InitLoad == InitPage("proceedings", NoFir)

NextLoad ==
  \/ \E data \in CachedLists, writs \in SUBSET ServerWrits : LoadCached(data, writs)
  \/ \E data \in CachedLists : LoadProceedings(data, {})
  \/ LoadFailed
  \/ Tick

SpecLoad == InitLoad /\ [][NextLoad]_vars

(***************************************************************************)
(* The filters of the proceedings list.                                     *)
(***************************************************************************)
\* proceedings with their texts; the writ reference is populated or a bare id
TextPool ==
  [fir : {ObjFir(QuashingWrit), StrFir(QuashingWrit), ObjFir(BailWrit), StrFir(BailWrit)},
   sequence : {1}, createdAt : {5}, dateOfHearing : {Today},
   summary : {EmptyText, <<"A", "b">>}, judgeName : {<<"j">>}, courtNumber : {<<"9">>},
   type : {"NOTICE_OF_MOTION", "ARGUMENT"}]

TextLists ==
  UNION {{[i \in DOMAIN f |-> [_id |-> i] @@ f[i]] : f \in [1..n -> TextPool]} : n \in 0..MaxListed}

SearchTerms == {EmptyText, <<"A", "b">>, <<"a", "B">>, <<"a", "b", "c">>, <<"j">>}

InitFilter == InitPage("proceedings", NoFir)

NextFilter ==
  \/ \E data \in TextLists : LoadProceedings(data, {})
  \/ \E term \in SearchTerms : SetSearchTerm(term)
  \/ \E type \in {AllTypes, "NOTICE_OF_MOTION", "ARGUMENT"} : SetFilterType(type)
  \/ \E writ \in {AnyFir} \cup ServerWrits : SetFilterFIR(writ)

SpecFilter == InitFilter /\ [][NextFilter]_vars

(***************************************************************************)
(* The proceeding forms of the three pages: fields, attachments, submission. *)
(***************************************************************************)
InitForms ==
  \/ InitPage("proceedings", NoFir)
  \/ \E w \in ServerWrits : InitPage("firDetail", w)
  \/ InitPage("firs", NoFir)

\* what every behaviour of a form needs: loading, opening the form, the writ,
\* the type, the hearing date, the submission and its answers
NextFields ==
  \/ LoadProceedings(<<>>, {})
  \/ ToggleCreateForm
  \/ \E w \in ServerWrits \cup {NoFir} : SelectFir(w)
  \/ \E t \in ProceedingTypes : SelectType(t)
  \/ \E d \in HearingDateInputs : SetHearingDate(d)
  \/ HandleSubmit
  \/ \E i \in 1..MaxCreated : CreateProceedingResolved(i)
  \/ DetailLoad
  \/ DetailToggleForm
  \/ \E t \in ProceedingTypes : DetailSelectType(t)
  \/ \E d \in HearingDateInputs : DetailSetHearingDate(d)
  \/ DetailHandleSubmit
  \/ \E i \in 1..MaxCreated : DetailCreateResolved(i)
  \/ FirsLoad({})
  \/ ToggleFormOpen
  \/ SubmitFirForm
  \/ \E i \in 1..MaxInFlight : CreateFirResolved(i)
  \/ \E t \in ProceedingTypes : StepSelectType(t)
  \/ \E d \in HearingDateInputs : StepSetHearingDate(d)
  \/ handleSaveDraft
  \/ \E i \in 1..MaxInFlight : SaveDraftResolved(i, TRUE)
  \/ StepHandleSubmit
  \/ \E i \in 1..MaxInFlight : StepSubmitResolved(i, TRUE)

\* the type-specific sections, the writ form of step 1 and the drafts
NextSections ==
  \/ \E s \in Sections, index \in 0..(MaxEntries - 1) : EditSection(s, index)
  \/ \E s \in Sections : DetailEditSection(s)
  \/ FirsLoad({BailWrit})
  \/ \E t \in WritTypeInputs, d \in DateOfFirInputs : EditFirForm(t, d)
  \/ CancelFirForm
  \/ handleBackToStep1
  \/ \E s \in Sections : StepEditSection(s)
  \/ \E w \in ServerWrits : handleResumeDraft(w)
  \/ \E i \in 1..MaxInFlight, draft \in DraftsOf(BailWrit) : ResumeDraftResolved(i, draft)

\* choosing and removing attachments
NextAttachments ==
  \/ addNoticeOfMotionEntry
  \/ \E index \in 0..(MaxEntries - 1) : removeNoticeOfMotionEntry(index)
  \/ \E index \in 0..(MaxEntries - 1), file \in FormFiles : SelectNoticeFile(index, file)
  \/ \E index \in 0..(MaxEntries - 1) : RemoveNoticeFile(index)
  \/ \E file \in FormFiles : SelectReplyFile(file)
  \/ \E file \in FormFiles : SelectOrderFile(file)
  \/ RemoveOrderFile
  \/ \E file \in FormFiles : DetailSelectOrderFile(file)
  \/ DetailRemoveOrderFile
  \/ \E file \in FormFiles : StepSelectOrderFile(file)
  \/ StepRemoveOrderFile

NextForms == NextFields \/ NextSections

SpecForms == InitForms /\ [][NextForms]_vars

\* the server or the network fails
NextFailures ==
  \/ LoadFailed
  \/ \E i \in 1..MaxCreated, err \in ThrownErrors : CreateProceedingRejected(i, err)
  \/ DetailLoadFailed
  \/ \E i \in 1..MaxCreated, err \in ThrownErrors : DetailCreateRejected(i, err)
  \/ \E i \in 1..MaxInFlight : CreateFirRejected(i)
  \/ \E i \in 1..MaxInFlight : SaveDraftRejected(i)
  \/ \E i \in 1..MaxInFlight, err \in ThrownErrors : StepSubmitRejected(i, err)
  \/ FirsLoad({BailWrit})
  \/ \E w \in ServerWrits : handleResumeDraft(w)
  \/ \E i \in 1..MaxInFlight, message \in {DraftNotFound, LoadDraftError} :
        ResumeDraftFailed(i, message)

NextFiles == NextFields \/ NextAttachments \/ NextFailures

SpecFiles == InitForms /\ [][NextFiles]_vars





(***************************************************************************)
(* Resuming the drafts the server may hold.                                 *)
(***************************************************************************)
\* a draft whose noticeOfMotion is an array without entries
DraftWithoutEntries(w) ==
  [BuildStepPayload(w, InitialFormData(NoFir), Today + UrgentDays, TRUE)
     EXCEPT !.noticeOfMotion = Some([array |-> TRUE, entries |-> <<>>])]

ServerDrafts(w) == DraftsOf(w) \cup {DraftWithoutEntries(w)}

InitDraft == InitPage("firs", NoFir)

NextDraft ==
  \/ FirsLoad({BailWrit})
  \/ \E w \in ServerWrits : handleResumeDraft(w)
  \/ \E i \in 1..MaxInFlight, draft \in ServerDrafts(BailWrit) : ResumeDraftResolved(i, draft)
  \/ \E t \in ProceedingTypes : StepSelectType(t)
  \/ \E d \in HearingDateInputs : StepSetHearingDate(d)
  \/ \E s \in Sections : StepEditSection(s)
  \/ handleBackToStep1
  \/ CancelFirForm
  \/ handleSaveDraft
  \/ \E i \in 1..MaxInFlight : SaveDraftResolved(i, TRUE)
  \/ StepHandleSubmit
  \/ \E i \in 1..MaxInFlight : StepSubmitResolved(i, TRUE)

SpecDraft == InitDraft /\ [][NextDraft]_vars

(***************************************************************************)
(* The writ form while the answers of its requests are outstanding: the    *)
(* user closes the form, resumes a draft and submits again.                *)
(***************************************************************************)
InitOverlap == InitPage("firs", NoFir)

NextOverlap ==
  \/ FirsLoad({BailWrit})
  \/ ToggleFormOpen
  \/ SubmitFirFormWithin(MaxOverlap)
  \/ \E i \in 1..MaxOverlap : CreateFirResolved(i)
  \/ \E i \in 1..MaxOverlap : CreateFirRejected(i)
  \/ handleBackToStep1
  \/ \E w \in ServerWrits : ResumeDraftWithin(w, MaxOverlap)
  \/ \E i \in 1..MaxOverlap, draft \in DraftsOf(BailWrit) : ResumeDraftResolved(i, draft)
  \/ \E i \in 1..MaxOverlap, message \in {DraftNotFound, LoadDraftError} :
       ResumeDraftFailed(i, message)
  \/ \E file \in FormFiles : StepSelectOrderFile(file)
  \/ SaveDraftWithin(MaxOverlap)
  \/ \E i \in 1..MaxOverlap : SaveDraftResolved(i, TRUE)
  \/ \E i \in 1..MaxOverlap : SaveDraftRejected(i)
  \/ StepSubmitWithin(MaxOverlap)
  \/ \E i \in 1..MaxOverlap : StepSubmitResolved(i, TRUE)
  \/ \E i \in 1..MaxOverlap, err \in ThrownErrors : StepSubmitRejected(i, err)

SpecOverlap == InitOverlap /\ [][NextOverlap]_vars

(***************************************************************************)
(* The notice-of-motion entries of the Proceedings page and their files,   *)
(* over forms of up to MaxPaired entries and across a submission.          *)
(***************************************************************************)
InitPairs == InitPage("proceedings", NoFir)

NextPairs ==
  \/ LoadProceedings(<<>>, {})
  \/ ToggleCreateForm
  \/ \E w \in ServerWrits \cup {NoFir} : SelectFir(w)
  \/ \E t \in {"NOTICE_OF_MOTION", "ARGUMENT"} : SelectType(t)
  \/ \E d \in HearingDateInputs : SetHearingDate(d)
  \/ addNoticeOfMotionEntryWithin(MaxPaired)
  \/ \E index \in 0..(MaxPaired - 1) : removeNoticeOfMotionEntry(index)
  \/ \E index \in 0..(MaxPaired - 1), file \in {PdfFile, DocxFile} :
       SelectNoticeFile(index, file)
  \/ \E index \in 0..(MaxPaired - 1) : RemoveNoticeFile(index)
  \/ HandleSubmit
  \/ \E i \in 1..MaxCreated : CreateProceedingResolved(i)

SpecPairs == InitPairs /\ [][NextPairs]_vars

(***************************************************************************)
(* The timeline of the writ page over the proceedings of one writ, with    *)
(* and without sequence and createdAt.                                     *)
(***************************************************************************)
\* the proceedings of writ w: no sequence, sequence 0 and 1, with and
\* without createdAt
TimelinePool(w) ==
  ProceedingFields({ObjFir(w)}, {NoSeq, 0, 1}, {NoDate, 5}, {Today + UrgentDays})

InitTimeline == \E w \in ServerWrits : InitPage("firDetail", w)

NextTimeline ==
  \/ \E list \in ListsOver(TimelinePool(firId), MaxTie) : DetailLoadWith(list)
  \/ DetailLoadFailed
  \/ DetailToggleForm

SpecTimeline == InitTimeline /\ [][NextTimeline]_vars

(***************************************************************************)
(* The branch breakdown of the Dashboard.                                   *)
(***************************************************************************)
PaletteSize == 8

DashboardLoadError == "Failed to load dashboard data"

\* Math.round of a quotient of two naturals
RoundDiv(a, b) == (2 * a + b) \div (2 * b)

MaxOf(numbers) == CHOOSE n \in numbers : \A k \in numbers : k <= n

RECURSIVE SumCounts(_, _)
SumCounts(graph, i) == IF i > Len(graph) THEN 0 ELSE graph[i].count + SumCounts(graph, i + 1)

\* the cityBars memo
CityBars(graph) ==
  IF Len(graph) = 0 THEN <<>>
  ELSE LET total == SumCounts(graph, 1)
           max == MaxOf({graph[i].count : i \in 1..Len(graph)} \cup {1})
       IN  [i \in 1..Len(graph) |->
              [label |-> graph[i].branch,
               value |-> IF max # 0 THEN RoundDiv(graph[i].count * 100, max) ELSE 0,
               count |-> graph[i].count,
               percent |-> IF total # 0 THEN RoundDiv(graph[i].count * 100, total) ELSE 0,
               color |-> (i - 1) % PaletteSize]]

cityBars == CityBars(cityGraph)

\* what fetchFIRCityGraph may return: a count for each of some branches
Branches == {"A", "B", "C"}

CityGraphs ==
  UNION {{graph \in [1..n -> [branch : Branches, count : 0..MaxCount]] :
            \A i, j \in 1..n : i # j => graph[i].branch # graph[j].branch}
         : n \in 0..MaxBranches}

\* loadDashboard(): the three fetches answered
DashboardLoad(cityData) ==
  /\ page = "dashboard"
  /\ loading
  /\ firs' = serverFirs
  /\ cityGraph' = cityData
  /\ error' = NoError
  /\ loading' = FALSE
  /\ sent' = Null
  /\ UNCHANGED <<page, currentUser, serverFirs, now, attachVars, apiVars, probes, filterVars,
                 sortedInPlace, proceedings, latestByFIR, upcomingHearings, firsWithDrafts,
                 searchVars, showForm, formData, fileVars, detailVars, stepVars, pending>>

\* loadDashboard(): the catch branch
DashboardLoadFailed ==
  /\ page = "dashboard"
  /\ loading
  /\ error' = DashboardLoadError
  /\ loading' = FALSE
  /\ sent' = Null
  /\ UNCHANGED <<frame, proceedings, latestByFIR, upcomingHearings, writVars, searchVars,
                 showForm, formData, fileVars, detailVars, stepVars, pending>>

InitDashboard == InitPage("dashboard", NoFir)

NextDashboard ==
  \/ \E cityData \in CityGraphs : DashboardLoad(cityData)
  \/ DashboardLoadFailed

SpecDashboard == InitDashboard /\ [][NextDashboard]_vars

(***************************************************************************)
(* The attachment validators, each applied to the same file.                *)
(***************************************************************************)
CandidateSizes ==
  {0, 1, MaxFileSize - 1, MaxFileSize, MaxFileSize + 1, MaxFileSize + 1024,
   MaxFileSize + 1025, 4 * MaxFileSize}

CandidateTypes ==
  AllowedTypes \cup
    {"application/vnd.openxmlformats-officedocument.wordprocessingml.document",
     "text/plain", ""}

CandidateFiles == [size : CandidateSizes, type : CandidateTypes]

\* a file is picked in the file dialog
OfferFile(file) ==
  /\ candidate = Null
  /\ candidate' = Some(file)
  /\ UNCHANGED <<page, currentUser, serverFirs, viewVars, writVars, searchVars, error,
                 showForm, formData, fileVars, detailVars, stepVars, pending, sent, verdicts, apiVars, probes, filterVars, sortedInPlace, cityGraph>>

\* every selection handler and every submit handler judges the file
ValidateEverywhere ==
  /\ candidate # Null
  /\ verdicts = <<>>
  /\ verdicts' =
       [SubmitFileError |-> SubmitFileError(candidate[1]),
        NoticeFileError |-> NoticeFileError(candidate[1]),
        ReplyFileError |-> ReplyFileError(candidate[1]),
        OrderFileError |-> OrderFileError(candidate[1]),
        DetailSubmitFileError |-> DetailSubmitFileError(candidate[1]),
        DetailOrderFileError |-> DetailOrderFileError(candidate[1]),
        SaveDraftFileError |-> SaveDraftFileError(candidate[1]),
        StepSubmitFileError |-> StepSubmitFileError(candidate[1]),
        StepOrderFileError |-> StepOrderFileError(candidate[1])]
  /\ UNCHANGED <<page, currentUser, serverFirs, viewVars, writVars, searchVars, error,
                 showForm, formData, fileVars, detailVars, stepVars, pending, sent, candidate, apiVars, probes, filterVars, sortedInPlace, cityGraph>>

InitAttach == InitPage("proceedings", NoFir)

NextAttach ==
  \/ \E file \in CandidateFiles : OfferFile(file)
  \/ ValidateEverywhere

SpecAttach == InitAttach /\ [][NextAttach]_vars

(***************************************************************************)
(* request(): the fetch wrapper behind every call to the server.  A path is *)
(* its sequence of segments, a message is a tuple of its parts.             *)
(***************************************************************************)
LoginPath == <<"auth", "login">>
FirsPath == <<"v1", "firs">>
AuthNamedPath == <<"v1", "auth">>
RequestPaths == {LoginPath, FirsPath, AuthNamedPath}

\* a user whose stored token is the empty string
TokenlessUser == [token |-> ""]

HttpStatuses == {200, 201, 401, 403, 500}

NoStatusField == [type |-> "undefined", value |-> 0]
TextStatusField == [type |-> "string", value |-> 0]
NumberStatusField(n) == [type |-> "number", value |-> n]

ServerMessage == <<"Duplicate case number">>
EmptyMessage == <<"">>

UnparsableBody == [kind |-> "unparsable", status |-> NoStatusField, message |-> Null]
ArrayBody == [kind |-> "array", status |-> NoStatusField, message |-> Null]
PrimitiveBody == [kind |-> "primitive", status |-> NoStatusField, message |-> Null]
ObjectBodies ==
  [kind : {"object"},
   status : {NoStatusField, TextStatusField} \cup {NumberStatusField(n) : n \in HttpStatuses},
   message : {Null, Some(ServerMessage), Some(EmptyMessage)}]

Responses ==
  [status : HttpStatuses,
   body : {UnparsableBody, ArrayBody, PrimitiveBody} \cup ObjectBodies]

\* path.startsWith('/auth/'), with every path that has "auth" in it taken
\* for an authentication endpoint
isAuthEndpointAnywhere(path) == \E i \in 1..Len(path) : path[i] = "auth"

\* path.startsWith('/auth/')
isAuthEndpoint(path) == Len(path) >= 2 /\ path[1] = "auth"

\* state.currentUser?.token || null
getAuthToken ==
  IF currentUser = Null \/ currentUser[1].token = "" THEN Null ELSE Some(currentUser[1].token)

\* (data as MaybeStatusResponse)?.message, as a condition
HasMessage(body) == body.message # Null /\ body.message # Some(EmptyMessage)

\* (data as MaybeStatusResponse)?.message || fallback
MessageOr(body, fallback) == IF HasMessage(body) THEN body.message[1] ELSE fallback

\* the test for an authentication failure with 403 forgotten
IsAuthStatus401Only(n) == n = 401

\* response.status === 401 || response.status === 403
IsAuthStatus(n) == n = 401 \/ n = 403

\* response.ok
Ok(response) == response.status >= 200 /\ response.status <= 299

NoTokenMessage == <<"Authentication required. Please login again.">>
ParseMessage == <<"Unable to parse server response">>
ExpiredMessage == <<"Your session has expired. Please login again.">>
ForbiddenMessage == <<"Access forbidden. Please login again.">>
FailedWithStatus(n) == <<"Request failed with status", n>>

Returned(response) ==
  [returns |-> TRUE, data |-> Some(response.body), message |-> Null, authError |-> FALSE]
Thrown(message, authError) ==
  [returns |-> FALSE, data |-> Null, message |-> Some(message), authError |-> authError]

\* request() with primitive bodies refused
RequestResultObjectsOnly(path, response) ==
  LET body == response.body
      auth == isAuthEndpoint(path)
  IN  IF body.kind = "unparsable"
        THEN Thrown(ParseMessage, ~auth /\ IsAuthStatus(response.status))
      ELSE IF ~auth /\ IsAuthStatus(response.status)
        THEN Thrown(IF HasMessage(body) \/ response.status = 401
                      THEN ExpiredMessage ELSE ForbiddenMessage, TRUE)
      ELSE IF ~Ok(response)
        THEN Thrown(MessageOr(body, FailedWithStatus(response.status)), FALSE)
      ELSE IF body.kind = "primitive"
        THEN Thrown(ParseMessage, FALSE)
      ELSE IF body.kind = "object" /\ body.status.type = "number" /\ body.status.value # 200
        THEN Thrown(MessageOr(body, FailedWithStatus(body.status.value)),
                    ~auth /\ IsAuthStatus(body.status.value))
      ELSE Returned(response)

\* request(): everything after the response arrived
RequestResult(path, response) ==
  LET body == response.body
      auth == isAuthEndpoint(path)
  IN  IF body.kind = "unparsable"
        THEN Thrown(ParseMessage, ~auth /\ IsAuthStatus(response.status))
      ELSE IF ~auth /\ IsAuthStatus(response.status)
        THEN Thrown(IF HasMessage(body) \/ response.status = 401
                      THEN ExpiredMessage ELSE ForbiddenMessage, TRUE)
      ELSE IF ~Ok(response)
        THEN Thrown(MessageOr(body, FailedWithStatus(response.status)), FALSE)
      ELSE IF body.kind = "object" /\ body.status.type = "number" /\ body.status.value # 200
        THEN Thrown(MessageOr(body, FailedWithStatus(body.status.value)),
                    ~auth /\ IsAuthStatus(body.status.value))
      ELSE Returned(response)

\* what request() does not touch
notApi ==
  <<page, serverFirs, viewVars, writVars, searchVars, error, showForm, formData, fileVars,
    detailVars, stepVars, pending, sent, attachVars, probes, filterVars, sortedInPlace, cityGraph>>

LoginLocations == {"/login", "/signup"}

\* handleAuthError: the assignment to window.location.href is made
Redirects == location \notin LoginLocations

\* request(): up to the call of fetch
Request(path) ==
  /\ Len(requests) < MaxRequests
  /\ IF isAuthEndpoint(path) THEN location = "/login" ELSE location \notin LoginLocations
  /\ IF ~isAuthEndpoint(path) /\ getAuthToken = Null
       THEN /\ currentUser' = Null
            /\ location' = "/login"
            /\ requests' = <<>>
            /\ outcome' = Some([path |-> path, response |-> Null, fetched |-> FALSE,
                                result |-> Thrown(NoTokenMessage, TRUE),
                                redirected |-> Redirects])
       ELSE /\ requests' =
                 Append(requests,
                        [path |-> path,
                         xAccessToken |-> IF isAuthEndpoint(path) THEN Null ELSE getAuthToken])
            /\ outcome' = Null
            /\ UNCHANGED <<currentUser, location>>
  /\ UNCHANGED notApi

\* request(): from the response on
RequestAnswered(i, response) ==
  /\ i \in 1..Len(requests)
  /\ LET result == RequestResult(requests[i].path, response)
     IN  /\ outcome' = Some([path |-> requests[i].path, response |-> Some(response),
                             fetched |-> TRUE, result |-> result,
                             redirected |-> result.authError /\ Redirects])
         /\ IF result.authError
              THEN /\ currentUser' = Null
                   /\ location' = IF Redirects THEN "/login" ELSE location
                   /\ requests' = IF Redirects THEN <<>> ELSE RemoveAt(requests, i)
              ELSE /\ requests' = RemoveAt(requests, i)
                   /\ UNCHANGED <<currentUser, location>>
  /\ UNCHANGED notApi

\* store.ts setAuth, called by the login page
setAuth(user) ==
  /\ location = "/login"
  /\ currentUser' = Some(user)
  /\ outcome' = Null
  /\ UNCHANGED <<notApi, location, requests>>

\* the Logout button of the layout: logout(); navigate('/login')
LogoutClick ==
  /\ location \notin LoginLocations
  /\ currentUser' = Null
  /\ location' = "/login"
  /\ outcome' = Null
  /\ UNCHANGED <<notApi, requests>>

\* a link to a protected page; ProtectedRoute sends a visitor without a user
\* to /login
Navigate(to) ==
  /\ location' = IF currentUser = Null THEN "/login" ELSE to
  /\ outcome' = Null
  /\ UNCHANGED <<notApi, currentUser, requests>>

InitRequest == InitPage("proceedings", NoFir)

NextRequest ==
  \/ \E path \in RequestPaths : Request(path)
  \/ \E i \in 1..MaxRequests, response \in Responses : RequestAnswered(i, response)
  \/ \E user \in {LoggedIn, TokenlessUser} : setAuth(user)
  \/ LogoutClick
  \/ \E to \in {"/", "/proceedings"} : Navigate(to)

SpecRequest == InitRequest /\ [][NextRequest]_vars

(***************************************************************************)
(* The routes of App and the guard of the protected ones.                  *)
(***************************************************************************)
ProtectedLocations == {"/", "/firs", "/firs/:firId", "/proceedings"}

RedirectToLogin == <<"Navigate", "/login">>

\* the guard with the test of the user left out
ProtectedRouteOpen(user, children) == children

\* ProtectedRoute; the users of the model have the USER role
ProtectedRoute(user, children) ==
  IF user = Null THEN RedirectToLogin ELSE children

\* the element <Routes> selects for a location
App(loc, user) ==
  IF loc = "/login" THEN <<"Login">>
  ELSE IF loc \in ProtectedLocations THEN ProtectedRoute(user, <<"AppLayout", loc>>)
  ELSE <<"NotFound">>

\* what is on the screen
rendered == App(location, currentUser)

\* the address bar or a link changes the location
OpenLocation(to) ==
  /\ to # location
  /\ location' = to
  /\ UNCHANGED <<notApi, currentUser, requests, outcome>>

\* <Navigate to="/login" replace /> takes effect
RedirectTaken ==
  /\ rendered = RedirectToLogin
  /\ location' = "/login"
  /\ UNCHANGED <<notApi, currentUser, requests, outcome>>

\* the app starts at any location, with the persisted user or with none
InitSession ==
  \E user \in {Null, Some(LoggedIn)} :
    \/ InitPageAs("proceedings", NoFir, user)
    \/ InitPageAs("dashboard", NoFir, user)

\* answers of every status, with bodies that carry no status field
SessionResponses == {r \in Responses : r.body.status = NoStatusField}

NextSession ==
  \/ \E to \in ProtectedLocations \cup {"/login", "/signup"} : OpenLocation(to)
  \/ RedirectTaken
  \/ \E user \in {LoggedIn, TokenlessUser} : rendered = <<"Login">> /\ setAuth(user)
  \/ rendered[1] = "AppLayout" /\ LogoutClick
  \/ \E path \in RequestPaths :
       /\ rendered[1] = (IF isAuthEndpoint(path) THEN "Login" ELSE "AppLayout")
       /\ Request(path)
  \/ \E i \in 1..MaxRequests, response \in SessionResponses : RequestAnswered(i, response)

SpecSession == InitSession /\ [][NextSession]_vars

(***************************************************************************)
(* load(): the draft probes, one fetchDraftProceedingByFIR per writ.        *)
(***************************************************************************)
ProbeAnswers == [ServerWrits -> {"draft", "none", "failed"}]

\* the draft set with a failed probe counted as a draft
DraftSetFailClosed(answers) == {w \in DOMAIN answers : answers[w] # "none"}

\* draftSet: the writs whose probe returned a draft
DraftSet(answers) == {w \in DOMAIN answers : answers[w] = "draft"}

\* load(): the probes have all settled
DraftProbesAnswered(answers) ==
  /\ page \in {"proceedings", "firs"}
  /\ loading
  /\ probes = Null
  /\ probes' = Some(answers)
  /\ sent' = Null
  /\ UNCHANGED <<page, currentUser, serverFirs, viewVars, writVars, searchVars, error,
                 showForm, formData, fileVars, detailVars, stepVars, pending, attachVars,
                 apiVars, filterVars, sortedInPlace, cityGraph>>

InitProbe == \E p \in {"proceedings", "firs"} : InitPage(p, NoFir)

NextProbe ==
  \/ \E answers \in ProbeAnswers : DraftProbesAnswered(answers)
  \/ probes # Null /\ LoadProceedings(<<>>, DraftSet(probes[1]))
  \/ probes # Null /\ FirsLoad(DraftSet(probes[1]))
  \/ ToggleCreateForm
  \/ \E w \in ServerWrits \cup {NoFir} : SelectFir(w)
  \/ \E t \in ProceedingTypes : SelectType(t)
  \/ \E d \in HearingDateInputs : SetHearingDate(d)
  \/ ToggleFormOpen
  \/ \E t \in WritTypeInputs, d \in DateOfFirInputs : EditFirForm(t, d)
  \/ \E w \in ServerWrits : handleResumeDraft(w)
  \/ \E i \in 1..MaxInFlight, draft \in UNION {DraftsOf(w) : w \in ServerWrits} :
       ResumeDraftResolved(i, draft)

SpecProbe == InitProbe /\ [][NextProbe]_vars

(***************************************************************************)
(* Properties of the list derivation.                                       *)
(***************************************************************************)
Range(s) == {s[i] : i \in 1..Len(s)}

WritsIn(procs) == {FirIdOf(procs[i]) : i \in 1..Len(procs)} \ {NoFir}

OfWrit(procs, w) == {i \in 1..Len(procs) : FirIdOf(procs[i]) = w}

MaxSeqOf(procs, w) ==
  {i \in OfWrit(procs, w) :
     \A j \in OfWrit(procs, w) : SeqOrNegInf(procs[j]) <= SeqOrNegInf(procs[i])}

BestOf(procs, w) ==
  {i \in MaxSeqOf(procs, w) :
     \A j \in MaxSeqOf(procs, w) : CreatedTime(procs[j]) <= CreatedTime(procs[i])}

FirstOf(S) == CHOOSE i \in S : \A j \in S : i <= j

Swap(list, a, b) ==
  [i \in 1..Len(list) |-> IF i = a THEN list[b] ELSE IF i = b THEN list[a] ELSE list[i]]

PicksMaxSequenceThenCreatedAt ==
  \A w \in WritsIn(proceedings) :
    /\ MapHas(latestByFIR, w)
    /\ \E i \in BestOf(proceedings, w) : MapGet(latestByFIR, w) = proceedings[i]

\* C1 (as stated): the representative of every writ is a max-sequence,
\* max-createdAt proceeding of that writ, and listing the same proceedings in
\* another order gives the same representatives.
C1_OrderIndependent ==
  /\ PicksMaxSequenceThenCreatedAt
  /\ \A a, b \in 1..Len(proceedings) :
       \A w \in WritsIn(proceedings) :
         MapGet(LatestByFIR(Swap(proceedings, a, b)), w) = MapGet(latestByFIR, w)

\* C1 (amended): the representative of every writ is the first listed among
\* the proceedings of that writ that have the maximum sequence and, among
\* those, the maximum createdAt; there is one representative per writ.
C1_LatestPerWrit ==
  /\ Len(latestByFIR) = Cardinality(WritsIn(proceedings))
  /\ \A w \in WritsIn(proceedings) :
       /\ MapHas(latestByFIR, w)
       /\ MapGet(latestByFIR, w) = proceedings[FirstOf(BestOf(proceedings, w))]

C1_Witness ==
  /\ ~loading
  /\ \E w \in WritsIn(proceedings) :
       /\ Cardinality(MaxSeqOf(proceedings, w)) >= 2
       /\ Cardinality(BestOf(proceedings, w)) = 1
       /\ Cardinality(OfWrit(proceedings, w)) >= 3
       /\ FirstOf(BestOf(proceedings, w)) # FirstOf(OfWrit(proceedings, w))
       /\ FirstOf(BestOf(proceedings, w)) # Len(proceedings)

\* C2: the upcoming-hearings output is in non-decreasing order of hearing
\* date and has at most 10 entries.
C2_SortedAndCapped ==
  /\ Len(upcomingHearings) <= UpcomingCap
  /\ \A i, j \in 1..Len(upcomingHearings) :
       i < j => HearingTime(upcomingHearings[i]) <= HearingTime(upcomingHearings[j])

C2_Witness ==
  /\ Len(upcomingHearings) = UpcomingCap
  /\ Len(latestByFIR) > UpcomingCap
  /\ \E i, j \in 1..Len(latestByFIR) :
       i < j /\ HearingTime(latestByFIR[i].value) > HearingTime(latestByFIR[j].value)
  /\ \E i, j \in 1..Len(upcomingHearings) :
       HearingTime(upcomingHearings[i]) < HearingTime(upcomingHearings[j])

\* C3: when the queue is computed, a latest-per-writ entry is kept exactly
\* when its hearing date is today or a later calendar day, whatever the time
\* of day is.
C3_TodayOrFuture ==
  [][(loading /\ ~loading' /\ Len(latestByFIR') <= UpcomingCap) =>
       \A i \in 1..Len(latestByFIR') :
         (latestByFIR'[i].value \in Range(upcomingHearings'))
           <=> IsUpcomingByDay(latestByFIR'[i].value, now)]_vars

\* C4: an upcoming-hearings entry is flagged urgent exactly when the
\* calendar-day difference between its hearing date and now is at most 7,
\* at every time of day.
C4_UrgentWithinSevenDays ==
  \A i \in 1..Len(upcomingHearings) :
    IsUrgent(upcomingHearings[i], now)
      <=> upcomingHearings[i].dateOfHearing - (now \div TicksPerDay) <= UrgentDays

C4_Witness ==
  /\ now % TicksPerDay # 0
  /\ \E i, j \in 1..Len(upcomingHearings) :
       /\ upcomingHearings[i].dateOfHearing - (now \div TicksPerDay) = UrgentDays
       /\ IsUrgent(upcomingHearings[i], now)
       /\ upcomingHearings[j].dateOfHearing - (now \div TicksPerDay) = UrgentDays + 1
       /\ ~IsUrgent(upcomingHearings[j], now)

(***************************************************************************)
(* Properties of the proceeding forms.                                      *)
(***************************************************************************)
SubObjects == {"noticeOfMotion", "replyTracking", "argumentDetails", "decisionDetails"}

\* the type-specific sub-objects a payload carries
PresentIn(payload) == {k \in SubObjects : payload[k] # Null}

IsRequest == sent # Null

\* C5: a request sent from the Proceedings page with type ARGUMENT names a
\* QUASHING writ, and whatever writs were selected, types chosen, search
\* results received and lists reloaded, the form never rests on ARGUMENT with
\* a selected writ that is not a QUASHING writ of the list or of the results:
\* such a form has been put back on NOTICE_OF_MOTION.
C5_ArgumentOnlyForQuashing ==
  /\ (IsRequest /\ sent[1].payload.type = "ARGUMENT")
       => WritTypeOf(sent[1].payload.fir) = "QUASHING"
  /\ (page = "proceedings" /\ formData.type = "ARGUMENT" /\ formData.fir # NoFir)
       => /\ formData.fir \in firs \cup firSearchResults
          /\ WritTypeOf(formData.fir) = "QUASHING"

C5_Witness ==
  /\ page = "proceedings"
  /\ IsRequest
  /\ sent[1].payload.type = "ARGUMENT"
  /\ sent[1].payload.fir = QuashingWrit

\* C6: in each of the three proceeding forms a request of type ARGUMENT names
\* a QUASHING writ.
C6_ArgumentOnlyForQuashingEveryForm ==
  (IsRequest /\ sent[1].payload.type = "ARGUMENT")
    => WritTypeOf(sent[1].payload.fir) = "QUASHING"

\* C7 as stated: a request carries exactly one type-specific sub-object.
C7_ExactlyOneSubObject ==
  IsRequest => Cardinality(PresentIn(sent[1].payload)) = 1

\* the sub-objects that go with a type
SubObjectsOf(t) ==
  IF t = "NOTICE_OF_MOTION" THEN {"noticeOfMotion"}
  ELSE IF t = "TO_FILE_REPLY" THEN {"noticeOfMotion", "replyTracking"}
  ELSE IF t = "ARGUMENT" THEN {"argumentDetails"}
  ELSE IF t = "DECISION" THEN {"decisionDetails"}
  ELSE {}

\* C7: a request carries the sub-objects of its type and no other, whatever
\* was typed in the other sections: noticeOfMotion for NOTICE_OF_MOTION,
\* noticeOfMotion and replyTracking for TO_FILE_REPLY, argumentDetails for
\* ARGUMENT, decisionDetails for DECISION; each carries what the form holds.
C7_SubObjectsByType ==
  IsRequest =>
    LET payload == sent[1].payload
    IN  /\ payload.type = formData.type
        /\ PresentIn(payload) = SubObjectsOf(payload.type)
        /\ payload.noticeOfMotion # Null
             => payload.noticeOfMotion[1].entries = formData.noticeOfMotion
        /\ payload.replyTracking # Null
             => payload.replyTracking[1] = formData.replyTracking
        /\ payload.argumentDetails # Null
             => payload.argumentDetails[1] = formData.argumentDetails
        /\ payload.decisionDetails # Null
             => payload.decisionDetails[1] = formData.decisionDetails

C7_Witness ==
  /\ IsRequest
  /\ sent[1].payload.type = "TO_FILE_REPLY"
  /\ formData.argumentDetails = Typed
  /\ formData.decisionDetails = Typed
  /\ PresentIn(sent[1].payload) = {"noticeOfMotion", "replyTracking"}

\* C8 as stated: no request, final or draft, leaves any of the three forms
\* unless the writ id and the hearing date are both present in the form.
C8_NoRequestWithoutWritAndDate ==
  IsRequest => /\ sent[1].payload.fir # NoFir
               /\ formData.dateOfHearing # NoDate
               /\ sent[1].payload.dateOfHearing = formData.dateOfHearing

\* a submit of the Proceedings page or of the writ-detail form with the writ
\* or the hearing date missing
RefusedSubmit ==
  \/ HandleSubmit /\ (formData.fir = NoFir \/ formData.dateOfHearing = NoDate)
  \/ DetailHandleSubmit /\ (formData.fir = NoFir \/ formData.dateOfHearing = NoDate)

\* C8: every request carries a writ id.  The Proceedings page and the
\* writ-detail form send nothing without a hearing date: with the writ or the
\* date missing the handler reports an error and leaves the list and the form
\* as they were.  Step 2 of the writ-creation form checks the writ id only: a
\* draft goes out with today's date in place of a missing hearing date, and a
\* final submit goes out with the hearing date as the form holds it.
C8_RequestNeedsWritAndDateWhereChecked ==
  /\ [](IsRequest =>
          /\ sent[1].payload.fir # NoFir
          /\ page \in {"proceedings", "firDetail"}
               => /\ formData.fir # NoFir
                  /\ formData.dateOfHearing # NoDate
                  /\ sent[1].payload.dateOfHearing = formData.dateOfHearing
          /\ (page = "firs" /\ sent[1].payload.draft = Some(TRUE))
               => sent[1].payload.dateOfHearing =
                    (IF formData.dateOfHearing = NoDate
                       THEN now \div TicksPerDay ELSE formData.dateOfHearing)
          /\ (page = "firs" /\ sent[1].payload.draft = Some(FALSE))
               => sent[1].payload.dateOfHearing = formData.dateOfHearing)
  /\ [][RefusedSubmit =>
          /\ error' \in {RequiredError, DetailRequiredError}
          /\ sent' = Null
          /\ UNCHANGED <<proceedings, formData, fileVars, pending, showForm>>]_vars

C8_Witness ==
  /\ page = "firs"
  /\ IsRequest
  /\ sent[1].payload.draft = Some(TRUE)
  /\ formData.dateOfHearing = NoDate
  /\ sent[1].payload.dateOfHearing = now \div TicksPerDay

(***************************************************************************)
(* Properties of the attachments.                                           *)
(***************************************************************************)
\* the rule as the specification words it
Acceptable(file) ==
  /\ file.size <= 250 * 1024
  /\ file.type \in
       {"application/pdf", "image/png", "image/jpeg", "image/jpg",
        "application/vnd.openxmlformats-officedocument.spreadsheetml.sheet",
        "application/vnd.ms-excel"}

\* C9: at every place that validates a file, the file is accepted exactly
\* when its size is at most 250 * 1024 bytes and its MIME type is PDF, PNG,
\* JPEG, JPG, XLSX or XLS; so all places give the same verdict.
C9_SameVerdictEverywhere ==
  verdicts # <<>> =>
    \A site \in DOMAIN verdicts :
      (verdicts[site] = NoError) <=> Acceptable(candidate[1])

\* a PDF of exactly 250 KiB has been accepted at every place
C9_Witness ==
  /\ verdicts # <<>>
  /\ candidate = Some([size |-> 250 * 1024, type |-> "application/pdf"])
  /\ \A site \in DOMAIN verdicts : verdicts[site] = NoError

\* a selection of a file that the handler of the input rejects
RejectedSelection ==
  \/ \E file \in FormFiles :
       /\ ~Acceptable(file)
       /\ \/ SelectOrderFile(file)
          \/ SelectReplyFile(file)
          \/ DetailSelectOrderFile(file)
          \/ StepSelectOrderFile(file)
          \/ \E index \in 0..(MaxEntries - 1) : SelectNoticeFile(index, file)

AllStored ==
  {orderOfProceedingFile[i] : i \in DOMAIN orderOfProceedingFile}
    \cup {noticeOfMotionFiles[i] : i \in DOMAIN noticeOfMotionFiles}

\* C10: a stored attachment is always an acceptable file, the file handed to
\* a create call is an acceptable file, and a selection that is rejected
\* sets the error and leaves the stored attachments and the form as they were.
C10_InvalidFileNeverStoredNorSent ==
  /\ [](\A file \in AllStored : Acceptable(file))
  /\ []((IsRequest /\ sent[1].file # Null) => Acceptable(sent[1].file[1]))
  /\ [][RejectedSelection =>
          /\ error' \in {SizeError, SizeErrorNotice, TypeError}
          /\ UNCHANGED <<fileVars, formData, showForm, proceedings, pending>>]_vars

\* a selection was rejected while an attachment was stored
C10_Witness ==
  /\ error \in {SizeError, SizeErrorNotice, TypeError}
  /\ orderOfProceedingFile = Some(PdfFile)
  /\ showForm

(***************************************************************************)
(* Properties of request().                                                 *)
(***************************************************************************)
\* a path under /auth/
UnderAuth(path) == Len(path) >= 2 /\ path[1] = "auth"

HoldsToken == currentUser # Null /\ currentUser[1].token # ""

Ended == outcome # Null

SaysUnauthorized(response) ==
  \/ response.status \in {401, 403}
  \/ /\ response.status \in 200..299
     /\ response.body.kind = "object"
     /\ response.body.status.type = "number"
     /\ response.body.status.value \in {401, 403}

\* C12 as stated: after a request to a path not under /auth/ that ended with
\* 401 or 403 the current user is null and the redirect to /login has been
\* requested; a request to a path under /auth/ clears nothing and redirects
\* nowhere.
C12_UnauthorizedLogsOutAndRedirects ==
  (Ended /\ outcome[1].fetched) =>
    IF UnderAuth(outcome[1].path)
      THEN ~outcome[1].result.authError /\ ~outcome[1].redirected
      ELSE SaysUnauthorized(outcome[1].response[1])
             => currentUser = Null /\ outcome[1].redirected

\* C12: after a request to a path not under /auth/ that ended with 401 or
\* 403 (HTTP status with any body, or the status field of a 2xx JSON object)
\* the current user is null and the browser is at /login: the redirect has
\* been requested unless the browser was there already.  No other response
\* clears the session, and a request to a path under /auth/ clears nothing
\* and redirects nowhere.
C12_UnauthorizedLogsOut ==
  (Ended /\ outcome[1].fetched) =>
    IF UnderAuth(outcome[1].path)
      THEN ~outcome[1].result.authError /\ ~outcome[1].redirected
      ELSE /\ outcome[1].result.authError <=> SaysUnauthorized(outcome[1].response[1])
           /\ outcome[1].redirected => outcome[1].result.authError
           /\ SaysUnauthorized(outcome[1].response[1])
                => /\ currentUser = Null
                   /\ location = "/login"

\* a 403 with an unparsable body ended a request made from a page
C12_Witness ==
  /\ Ended
  /\ outcome[1].fetched
  /\ outcome[1].path = FirsPath
  /\ outcome[1].response[1].status = 403
  /\ outcome[1].response[1].body.kind = "unparsable"
  /\ outcome[1].redirected
  /\ currentUser = Null

\* C13 as stated: request() returns exactly when the status is 2xx and the
\* body is an array, or an object whose status field is not a number other
\* than 200; otherwise it throws an error with a non-empty message.
C13_ReturnsArraysAndObjectsOnly ==
  (Ended /\ outcome[1].fetched) =>
    LET response == outcome[1].response[1]
        result == outcome[1].result
    IN  /\ result.returns <=>
             /\ response.status \in 200..299
             /\ response.body.kind \in {"array", "object"}
             /\ ~(response.body.status.type = "number" /\ response.body.status.value # 200)
        /\ ~result.returns
             => /\ result.data = Null
                /\ result.message # Null
                /\ result.message # Some(<<"">>)

\* C13: request() returns the parsed body exactly when the status is 2xx, the
\* body parses as JSON, and the body is not an object whose status field is a
\* number other than 200 (an array, an object, null, a number, a string and a
\* boolean are all returned); otherwise it throws an error with a non-empty
\* message and returns nothing.
C13_ReturnsParsedBodies ==
  (Ended /\ outcome[1].fetched) =>
    LET response == outcome[1].response[1]
        result == outcome[1].result
    IN  /\ result.returns <=>
             /\ response.status \in 200..299
             /\ response.body.kind # "unparsable"
             /\ ~(/\ response.body.kind = "object"
                  /\ response.body.status.type = "number"
                  /\ response.body.status.value # 200)
        /\ result.returns => result.data = Some(response.body)
        /\ ~result.returns
             => /\ result.data = Null
                /\ result.message # Null
                /\ result.message # Some(<<"">>)

C13_Witness ==
  /\ Ended
  /\ outcome[1].fetched
  /\ outcome[1].result.returns
  /\ outcome[1].response[1].body.kind = "primitive"

(***************************************************************************)
(* Properties of the writ picker and of the drafts.                         *)
(***************************************************************************)
\* C14: on the Proceedings page neither the dropdown list nor the list of
\* search results offers a writ that is known to have a draft, whatever the
\* order in which the load and the search responses complete.
C14_NoDraftedWritInPicker ==
  page = "proceedings" =>
    /\ firs \cap firsWithDrafts = {}
    /\ firSearchResults \cap firsWithDrafts = {}

\* C15: no request with draft = true is sent for a writ that the page knows
\* to have a draft already.
C15_NoSecondDraft ==
  (IsRequest /\ page = "firs" /\ sent[1].payload.draft = Some(TRUE))
    => sent[1].payload.fir \notin firsWithDrafts

\* C16: a draft probe that fails does not fail the load, and its writ counts
\* as a writ without a draft: it is in the list and not in the draft set.
\* The other writs are classified by their own answers.
C16_ProbesFailOpen ==
  (page \in {"proceedings", "firs"} /\ ~loading /\ probes # Null) =>
    /\ error = NoError
    /\ \A w \in serverFirs :
         /\ w \in firsWithDrafts <=> probes[1][w] = "draft"
         /\ page = "proceedings" => (w \in firs <=> probes[1][w] \in {"none", "failed"})
         /\ page = "firs" => w \in firs

\* a load ended after one probe failed and another found a draft
C16_Witness ==
  /\ ~loading
  /\ probes # Null
  /\ \E w \in serverFirs : probes[1][w] = "failed" /\ w \in firs
  /\ \E w \in serverFirs : probes[1][w] = "draft" /\ w \in firsWithDrafts

\* what the search of a query displays: the picker list for a blank query,
\* the undrafted matches otherwise
ResultsFor(q) ==
  IF Trim(q) = EmptyQuery THEN firs ELSE Matches(q) \ firsWithDrafts

\* C17: once every search response has arrived, the displayed results are
\* those of the most recent query, never those of a superseded search: they
\* are writs the current query finds, and hold every undrafted one of them
C17_LatestQueryDisplayed ==
  (/\ page = "proceedings" /\ ~loading /\ ~searchDelay /\ searches = <<>>
   /\ Trim(firSearchQuery) # EmptyQuery)
    => /\ firSearchResults \subseteq Matches(firSearchQuery)
       /\ ResultsFor(firSearchQuery) \subseteq firSearchResults

\* a search call: the list of searches in flight grows
SearchCalled == Len(searches') > Len(searches)

LoadEndsFailed == page = "proceedings" /\ loading /\ ~loading' /\ error' # NoError

\* C19: a failed initial load leaves the proceedings and the writs that were
\* displayed before it (from the cache) displayed; only the error changes
C19_FailedLoadKeepsView ==
  [][LoadEndsFailed =>
       /\ proceedings' = proceedings
       /\ firs' = firs
       /\ firSearchResults' = firSearchResults]_vars

\* the create-proceeding call of one of the three pages fails
CreateFails ==
  \E i \in 1..Len(pending), err \in ThrownErrors :
    \/ CreateProceedingRejected(i, err)
    \/ DetailCreateRejected(i, err)
    \/ StepSubmitRejected(i, err)

CreateSucceeds ==
  \E i \in 1..Len(pending) : CreateProceedingResolved(i) \/ DetailCreateResolved(i)

\* C21: when the create-proceeding call succeeds, the returned proceeding is
\* put in front of the list, the form closes and every field of the form is
\* back at its initial value: the form data (with the page's writ on the writ
\* page, no writ on the Proceedings page), the attachments and the search text
C21_SuccessResetsForm ==
  [][CreateSucceeds =>
       /\ Len(proceedings') = Len(proceedings) + 1
       /\ SubSeq(proceedings', 2, Len(proceedings')) =
            (IF page = "proceedings" THEN ProceedingsArray ELSE proceedings)
       /\ ~showForm'
       /\ formData' = InitialFormData(IF page = "firDetail" THEN firId ELSE NoFir)
       /\ orderOfProceedingFile' = Null
       /\ noticeOfMotionFiles' = <<>>
       /\ firSearchQuery' = EmptyQuery]_vars

\* the proceedings whose writ has the petitioner name a text spells, whatever
\* the case of its letters
OfPetitioner(text) ==
  {proceedings[i] : i \in {j \in 1..Len(proceedings) :
     /\ FirIdOf(proceedings[j]) # NoFir
     /\ toLowerCase(PetitionerName(FirIdOf(proceedings[j]))) = toLowerCase(text)}}

\* C22: a free-text search for the exact name of a petitioner lists the
\* proceedings of the writs of that petitioner and no others, whether a
\* proceeding refers to its writ by a populated object or by a bare id
C22_ExactPetitionerSearch ==
  (/\ page = "proceedings" /\ ~loading
   /\ filterType = AllTypes /\ filterFIR = AnyFir
   /\ \E w \in ServerWrits : toLowerCase(searchTerm) = toLowerCase(PetitionerName(w)))
    => Range(filteredProceedings) = OfPetitioner(searchTerm)

\* a create-writ request is sent
CreateFirCalled ==
  /\ Len(pending') = Len(pending) + 1
  /\ pending'[Len(pending')].call = "createFIR"

\* C23: a writ is created once: no create-writ request is sent from a form
\* that already has its writ, be it the writ step 1 created or the writ of
\* the draft that was resumed
C23_WritCreatedOnce ==
  [][CreateFirCalled => createdFIRId = NoFir]_vars

\* C24: the notice-of-motion list of the form holds at least one entry in
\* every state, and no NOTICE_OF_MOTION or TO_FILE_REPLY payload is sent
\* with zero entries
C24_AtLeastOneEntry ==
  /\ Len(formData.noticeOfMotion) >= 1
  /\ (sent # Null /\ sent[1].payload.noticeOfMotion # Null)
       => Len(sent[1].payload.noticeOfMotion[1].entries) >= 1

\* C25: the bars of the branch breakdown are in non-increasing order of case
\* count, each bar carries the fetched count of its branch, and every fetched
\* branch has exactly one bar
C25_BarsByMagnitude ==
  /\ \A i, j \in 1..Len(cityBars) : i < j => cityBars[i].count >= cityBars[j].count
  /\ Len(cityBars) = Len(cityGraph)
  /\ \A k \in 1..Len(cityGraph) :
       Cardinality({i \in 1..Len(cityBars) :
                      /\ cityBars[i].label = cityGraph[k].branch
                      /\ cityBars[i].count = cityGraph[k].count}) = 1

\* the requests of the writ form that create or save something
WriteCalls == {"createFIR", "saveDraft", "createProceeding"}

WritesInFlight == Cardinality({i \in 1..Len(pending) : pending[i].call \in WriteCalls})

\* step 1's submit, SAVE AND CLOSE or FINAL SUBMIT sends its request
WriteCalled ==
  /\ page = "firs"
  /\ Len(pending') = Len(pending) + 1
  /\ pending'[Len(pending')].call \in WriteCalls

\* C26: the two-step writ form has at most one create or draft request in
\* flight; while formSubmitting is true neither step 1's submit nor SAVE AND
\* CLOSE nor FINAL SUBMIT sends a request; and the form is locked only while
\* a handler that locked it is still waiting for its answer
C26_OneRequestInFlight ==
  /\ [](page = "firs" => WritesInFlight <= 1)
  /\ [](page = "firs" /\ formSubmitting => pending # <<>>)
  /\ [][WriteCalled => ~formSubmitting]_vars

\* entry index of the form is removed
EntryRemoved(index) ==
  /\ page = "proceedings"
  /\ index \in 0..(Len(formData.noticeOfMotion) - 1)
  /\ Len(formData'.noticeOfMotion) = Len(formData.noticeOfMotion) - 1
  /\ formData'.noticeOfMotion = RemoveAt(formData.noticeOfMotion, index + 1)
  /\ removeNoticeOfMotionEntry(index)

\* C27: when entry i is removed on the Proceedings page, the file of every
\* entry before i stays under its index, the file of every entry after i
\* moves one index down, the file of entry i is dropped, and afterwards no
\* file is keyed by an index outside the entry list
C27_FilesFollowEntries ==
  [][\A index \in 0..(MaxPaired - 1) :
       EntryRemoved(index) =>
         /\ \A j \in DOMAIN noticeOfMotionFiles :
              /\ j < index => (j \in DOMAIN noticeOfMotionFiles'
                                /\ noticeOfMotionFiles'[j] = noticeOfMotionFiles[j])
              /\ j > index => (j - 1 \in DOMAIN noticeOfMotionFiles'
                                /\ noticeOfMotionFiles'[j - 1] = noticeOfMotionFiles[j])
         /\ Cardinality(DOMAIN noticeOfMotionFiles') =
              Cardinality(DOMAIN noticeOfMotionFiles \ {index})
         /\ DOMAIN noticeOfMotionFiles' \subseteq 0..(Len(formData'.noticeOfMotion) - 1)]_vars

\* C28: on the writ page the first proceeding of the timeline is the one the
\* latest-per-writ reduction selects for the writ, whatever proceedings lack
\* a sequence or a createdAt
C28_TimelineHeadIsLatest ==
  (page = "firDetail" /\ ~loading /\ proceedings # <<>>)
    => /\ MapHas(LatestByFIR(proceedings), firId)
       /\ sortedProceedings[1] = MapGet(LatestByFIR(proceedings), firId)

\* C29: a protected request answered with HTTP 401 or 403 and a body that
\* parses raises an error with the message of the body when the body has
\* one, and otherwise with the session-expired text for 401 and the
\* access-forbidden text for 403
C29_AuthErrorMessage ==
  (/\ Ended
   /\ outcome[1].fetched
   /\ ~UnderAuth(outcome[1].path)
   /\ IsAuthStatus(outcome[1].response[1].status)
   /\ outcome[1].response[1].body.kind # "unparsable")
    => /\ ~outcome[1].result.returns
       /\ outcome[1].result.message =
            Some(IF HasMessage(outcome[1].response[1].body)
                   THEN outcome[1].response[1].body.message[1]
                 ELSE IF outcome[1].response[1].status = 401
                   THEN ExpiredMessage
                 ELSE ForbiddenMessage)

\* C30: while the store holds no user (at the start, after logout, after a
\* 401/403 answer cleared the session) no child of the protected route is
\* rendered and a protected location renders only the redirect to /login;
\* the store gets a user again only through setAuth
C30_NoPageWithoutSession ==
  /\ [](currentUser = Null =>
          /\ rendered[1] # "AppLayout"
          /\ location \in ProtectedLocations => rendered = RedirectToLogin)
  /\ [][(currentUser = Null /\ currentUser' # Null)
          => \E user \in {LoggedIn, TokenlessUser} : setAuth(user)]_vars

\* a 401/403 answer cleared the session, a protected location was opened
\* afterwards and the route renders the redirect
C30_Witness ==
  /\ currentUser = Null
  /\ outcome # Null
  /\ outcome[1].fetched
  /\ outcome[1].result.authError
  /\ location = "/proceedings"
  /\ rendered = RedirectToLogin

====
